---- MODULE Spec2Model ----
(***************************************************************************)
(* PingLink: the ring history of rendered dots (DotHistory), the latency   *)
(* classifier (categorizeLatency), the terminal control surface and the    *)
(* incremental renderer (SimpleGraphRenderer).                             *)
(***************************************************************************)
EXTENDS Integers, Sequences, FiniteSets, TLC

VARIABLES
    dh,          \* the DotHistory object: history, writeCount, capacity, graphWidth, graphHeight
    thrown,      \* the error the last DotHistory call threw ("none" when it returned)
    clock,       \* number of samples delivered so far (the timestamp of the next one is clock + 1)
    appended,    \* ghost: the samples appended since construction or the last clear, oldest first
    posLog,      \* ghost: getCurrentPosition() read after each addPing since construction or the last clear,
                 \*        kept while no resize came in between
    origin,      \* ghost: "fresh" since construction, "cleared" since a clear, "resized" once resized since
    lastOp,      \* ghost: the last operation performed
    prevDots,    \* ghost: getAllDots() as it was just before the last resize
    stdout,      \* process.stdout: isTTY, columns, rows (0 when the terminal reports none)
    graphWidth,  \* SimpleGraphRenderer.graphWidth
    graphHeight, \* SimpleGraphRenderer.graphHeight
    isInitialized,  \* SimpleGraphRenderer.isInitialized
    isFirstRender,  \* SimpleGraphRenderer.isFirstRender
    resizeHandler,  \* whether the renderer registered its 'resize' listener on process.stdout
    inAltScreen, \* TerminalControl.inAltScreen
    cursorHidden,   \* TerminalControl.cursorHidden
    out,         \* what the last handler wrote to the terminal, in order
    currentStats,   \* SimpleGraphRenderer.currentStats
    emitted,     \* ghost: the alternate-screen and cursor sequences written since the process started
    branch,      \* ghost: the side of its TerminalControl.isTTY() test the last renderer call took
    results,     \* DataManager.results
    config,      \* the PingConfig given to startPingMonitor: count, interval, sound,
                 \*        frequencySound; and process.platform
    pingCount,   \* startPingMonitor: pingCount
    maxPings,    \* startPingMonitor: maxPings
    lastPingSuccess,      \* SoundEngine.lastPingSuccess: "null", "true" or "false"
    consecutiveFailures,  \* SoundEngine.consecutiveFailures
    alert,       \* ghost: the alert the last 'result' listener asked the sound engine for
    lastFailureTime,      \* SoundEngine.lastFailureTime, in ms
    now,         \* Date.now(), in ms
    isRunning,   \* PingEngine.isRunning
    timers,      \* the pending timers and the ping in flight, each with the time left in ms,
                 \*        and the time the host takes to answer a ping
    proc,        \* the process: running or exited, with its exit code
    returned,    \* ghost: what is left of the array the last getResults call returned
    screen,      \* ghost: the screen of the terminal (the character and colour of each cell painted,
                 \*        the cursor, the scroll region, the colour selected) in the specifications that
                 \*        watch it, NoScreen in the others
    engine,      \* PingEngine: the pings in flight, the doPing timers pending and the
                 \*        pingProcess handle, in the specification of its start and stop calls
    call         \* one call of PingEngine.ping(): its timeout timer, its subprocess and its
                 \*        promise, in the specification of ping()

hvars == <<dh, thrown, clock, appended, posLog, origin, lastOp, prevDots>>

rvars == <<stdout, graphWidth, graphHeight, isInitialized, isFirstRender, resizeHandler,
           inAltScreen, cursorHidden, out>>

mvars == <<currentStats, emitted, branch>>

pvars == <<results, config, pingCount, maxPings, lastPingSuccess, consecutiveFailures, alert,
           lastFailureTime, now, isRunning, timers, proc>>

ovars == <<returned, screen>>

evars == <<engine, call>>

vars == <<hvars, rvars, mvars, pvars, ovars, evars>>

----------------------------------------------------------------------------
(* Bounds of the model *)

\* Date.now() as the process starts, in ms
Epoch == 100000
\* largest width of a grid
MaxWidth == 3
\* largest height of a grid
MaxHeight == 2
\* how far below 1 the unvalidated dimensions go
BelowOne == 2
\* number of samples delivered to a history of unvalidated dimensions
MaxLoosePings == 3
\* number of samples delivered in one behaviour
MaxPings == 7
\* latencies are counted in 1/Scale milliseconds
Scale == 10
\* largest latency, in milliseconds
MaxLatency == 501
\* number of handles (pings spawned and doPing timers set) one PingEngine hands out
MaxHandles == 5
\* number of ping() calls followed one after the other
MaxCalls == 5

----------------------------------------------------------------------------
(* JavaScript arithmetic *)

\* latency?: number, absent
Undefined == -1

\* the value NaN of a JavaScript number
NaN == -1000000

Abs(a) == IF a < 0 THEN -a ELSE a

Min2(a, b) == IF a <= b THEN a ELSE b

Max2(a, b) == IF a >= b THEN a ELSE b

\* a % b of JavaScript on integers: the sign follows the dividend, x % 0 is NaN
JSRem(a, b) ==
    IF a = NaN \/ b = NaN \/ b = 0 THEN NaN
    ELSE IF a >= 0 THEN a % Abs(b) ELSE -((-a) % Abs(b))

\* Math.floor(a / b) of JavaScript on integers, b # 0
JSFloorDiv(a, b) ==
    IF b > 0 THEN a \div b ELSE (-a) \div (-b)

----------------------------------------------------------------------------
(* color-schemes.ts *)

EXCELLENT == "excellent"
GOOD == "good"
FAIR == "fair"
POOR == "poor"
VERY_POOR == "verypoor"
FAILED == "failed"

LatencyCategory == {EXCELLENT, GOOD, FAIR, POOR, VERY_POOR, FAILED}

RESET_COLOR == "ESC[0m"

\* COLOR_SCHEMES.default
DefaultColors(category) ==
    CASE category = EXCELLENT -> "ESC[32m"
      [] category = GOOD -> "ESC[33m"
      [] category = FAIR -> "ESC[38;5;208m"
      [] category = POOR -> "ESC[31m"
      [] category = VERY_POOR -> "ESC[35m"
      [] category = FAILED -> "ESC[37m"

\* the thresholds of categorizeLatency, in milliseconds
ThresholdExcellent == 50
ThresholdGood == 100
ThresholdFair == 200
ThresholdPoor == 500

\* categorizeLatency with the thresholds taken as inclusive upper bounds
categorizeLatency_InclusiveBounds(latency) ==
    IF latency = Undefined THEN FAILED
    ELSE IF latency <= ThresholdExcellent * Scale THEN EXCELLENT
    ELSE IF latency <= ThresholdGood * Scale THEN GOOD
    ELSE IF latency <= ThresholdFair * Scale THEN FAIR
    ELSE IF latency <= ThresholdPoor * Scale THEN POOR
    ELSE VERY_POOR

\* categorizeLatency(latency?) ; latency in 1/Scale ms, or Undefined
categorizeLatency(latency) ==
    IF latency = Undefined THEN FAILED
    ELSE IF latency < ThresholdExcellent * Scale THEN EXCELLENT
    ELSE IF latency < ThresholdGood * Scale THEN GOOD
    ELSE IF latency < ThresholdFair * Scale THEN FAIR
    ELSE IF latency < ThresholdPoor * Scale THEN POOR
    ELSE VERY_POOR

----------------------------------------------------------------------------
(* dot-history.ts *)

\* glyphMap of precomputeGlyphs, the glyphs named by their code points
glyphMap(category) ==
    CASE category = EXCELLENT -> "U+00B7"
      [] category = GOOD -> "U+2219"
      [] category = FAIR -> "U+25AA"
      [] category = POOR -> "U+25A0"
      [] category = VERY_POOR -> "U+25A0"
      [] category = FAILED -> "U+25A1"

Glyphs == {"U+00B7", "U+2219", "U+25AA", "U+25A0", "U+25A1"}

\* precomputedGlyphs.get(category): `${color}${char}${RESET_COLOR}`
precomputedGlyphs(category) ==
    <<DefaultColors(category), glyphMap(category), RESET_COLOR>>

\* coloredGlyph.match(/[...]/)?.[0] || '?'
MatchGlyph(coloredGlyph) ==
    LET hits == {i \in 1..Len(coloredGlyph) : coloredGlyph[i] \in Glyphs}
    IN IF hits = {} THEN "?"
       ELSE coloredGlyph[CHOOSE i \in hits : \A j \in hits : i <= j]

\* addPing classifying by the latency alone, whatever the success flag
CategoryOf_IgnoresSuccess(ping) == categorizeLatency(ping.latency)

\* the category addPing computes for a sample
CategoryOf(ping) ==
    IF ping.success THEN categorizeLatency(ping.latency) ELSE FAILED

\* the Dot addPing builds
MakeDot(ping) ==
    LET coloredGlyph == precomputedGlyphs(CategoryOf(ping))
    IN [char |-> MatchGlyph(coloredGlyph), colorCode |-> coloredGlyph, ping |-> ping]

\* history[index] = dot on a JavaScript array: any index may be assigned
Put(history, index, dot) ==
    [k \in (DOMAIN history) \cup {index} |-> IF k = index THEN dot ELSE history[k]]

\* new Array(n) holds no element
EmptyArray == [k \in {} |-> 0]

\* constructor(width, height); new Array(capacity) throws a RangeError when capacity < 0
NewDotHistory(width, height) ==
    LET obj == [history |-> EmptyArray, writeCount |-> 0, capacity |-> width * height,
                graphWidth |-> width, graphHeight |-> height]
    IN [obj |-> obj, thrown |-> IF width * height < 0 THEN "RangeError" ELSE "none"]

\* addPing(ping): the object after the call
addPing(d, ping) ==
    LET index == JSRem(d.writeCount, d.capacity)
    IN [d EXCEPT !.history = Put(d.history, index, MakeDot(ping)),
                 !.writeCount = d.writeCount + 1]

\* getCurrentPosition with the column taken from writeCount instead of writeCount - 1
getCurrentPosition_ColFromCount(d) ==
    LET col == JSRem(d.writeCount, d.graphWidth)
        row == IF d.graphWidth = 0 THEN NaN
               ELSE JSRem(JSFloorDiv(d.writeCount - 1, d.graphWidth), d.graphHeight)
        justWrapped == col # NaN /\ col = d.graphWidth - 1 /\ d.writeCount > 1
    IN [col |-> col, row |-> row, justWrapped |-> justWrapped]

\* getCurrentPosition()
getCurrentPosition(d) ==
    LET col == JSRem(d.writeCount - 1, d.graphWidth)
        row == IF d.graphWidth = 0 THEN NaN
               ELSE JSRem(JSFloorDiv(d.writeCount - 1, d.graphWidth), d.graphHeight)
        justWrapped == col # NaN /\ col = d.graphWidth - 1 /\ d.writeCount > 1
    IN [col |-> col, row |-> row, justWrapped |-> justWrapped]

isFull(d) == d.writeCount >= d.capacity

getWriteCount(d) == d.writeCount

getCapacity(d) == d.capacity

getDimensions(d) == [width |-> d.graphWidth, height |-> d.graphHeight]

\* the loop of getLastDots: i runs from actualCount - 1 down to 0, result.unshift
RECURSIVE getLastDotsLoop(_, _, _)
getLastDotsLoop(d, i, result) ==
    IF i < 0 THEN result
    ELSE LET index == JSRem(d.writeCount - 1 - i, d.capacity)
         IN getLastDotsLoop(d, i - 1,
                IF index \in DOMAIN d.history
                THEN <<d.history[index]>> \o result
                ELSE result)

\* getLastDots(count)
getLastDots(d, count) ==
    LET actualCount == Min2(count, Min2(d.writeCount, d.capacity))
    IN getLastDotsLoop(d, actualCount - 1, <<>>)

\* getAllDots()
getAllDots(d) == getLastDots(d, d.capacity)

\* the loop of resize: oldDots[i] for i = startIndex .. oldDots.length - 1 (0-based)
RECURSIVE resizeLoop(_, _, _)
resizeLoop(d, oldDots, i) ==
    IF i >= Len(oldDots) THEN d
    ELSE LET index == JSRem(d.writeCount, d.capacity)
         IN resizeLoop([d EXCEPT !.history = Put(d.history, index, oldDots[i + 1]),
                                 !.writeCount = d.writeCount + 1],
                       oldDots, i + 1)

\* resize refusing a history that holds no dot
resize_RejectsEmpty(d, newWidth, newHeight) ==
    LET oldDots == getAllDots(d)
        sized == [d EXCEPT !.graphWidth = newWidth, !.graphHeight = newHeight,
                           !.capacity = newWidth * newHeight]
        emptied == [sized EXCEPT !.history = EmptyArray, !.writeCount = 0]
        dotsToKeep == Min2(Len(oldDots), emptied.capacity)
        startIndex == Max2(0, Len(oldDots) - dotsToKeep)
    IN IF sized.capacity < 0 THEN [obj |-> sized, thrown |-> "RangeError"]
       ELSE IF Len(oldDots) = 0 THEN [obj |-> d, thrown |-> "Error"]
       ELSE [obj |-> resizeLoop(emptied, oldDots, startIndex), thrown |-> "none"]

\* resize setting the capacity and leaving graphWidth and graphHeight as they were
resize_CapacityOnly(d, newWidth, newHeight) ==
    LET oldDots == getAllDots(d)
        sized == [d EXCEPT !.capacity = newWidth * newHeight]
        emptied == [sized EXCEPT !.history = EmptyArray, !.writeCount = 0]
        dotsToKeep == Min2(Len(oldDots), emptied.capacity)
        startIndex == Max2(0, Len(oldDots) - dotsToKeep)
    IN IF sized.capacity < 0 THEN [obj |-> sized, thrown |-> "RangeError"]
       ELSE [obj |-> resizeLoop(emptied, oldDots, startIndex), thrown |-> "none"]

\* resize(newWidth, newHeight): the object after the call and what the call threw
resize(d, newWidth, newHeight) ==
    LET oldDots == getAllDots(d)
        sized == [d EXCEPT !.graphWidth = newWidth, !.graphHeight = newHeight,
                           !.capacity = newWidth * newHeight]
    IN IF sized.capacity < 0
       THEN [obj |-> sized, thrown |-> "RangeError"]
       ELSE LET emptied == [sized EXCEPT !.history = EmptyArray, !.writeCount = 0]
                dotsToKeep == Min2(Len(oldDots), emptied.capacity)
                startIndex == Max2(0, Len(oldDots) - dotsToKeep)
            IN [obj |-> resizeLoop(emptied, oldDots, startIndex), thrown |-> "none"]

\* clear that allocates no array again: the capacity becomes 0
clear_DropsCapacity(d) ==
    IF d.capacity < 0 THEN [obj |-> d, thrown |-> "RangeError"]
    ELSE [obj |-> [d EXCEPT !.history = EmptyArray, !.writeCount = 0, !.capacity = 0],
          thrown |-> "none"]

\* clear that empties the slots and forgets to reset the write count
clear_KeepsWriteCount(d) ==
    IF d.capacity < 0 THEN [obj |-> d, thrown |-> "RangeError"]
    ELSE [obj |-> [d EXCEPT !.history = EmptyArray], thrown |-> "none"]

\* clear(): the object after the call and what the call threw. new Array(capacity)
\* throws a RangeError on a negative capacity, before anything is assigned
clear(d) ==
    IF d.capacity < 0 THEN [obj |-> d, thrown |-> "RangeError"]
    ELSE [obj |-> [d EXCEPT !.history = EmptyArray, !.writeCount = 0], thrown |-> "none"]

----------------------------------------------------------------------------

----------------------------------------------------------------------------
(* terminal-control.ts: what is written to the terminal, one record per sequence *)

\* moveTo(row, col): ESC[row;colH
moveTo(row, col) == [seq |-> "moveTo", row |-> row, col |-> col]

\* setScrollRegion(top, bottom): ESC[top;bottomr
setScrollRegion(top, bottom) == [seq |-> "setScrollRegion", top |-> top, bottom |-> bottom]

\* scrollUp(lines): ESC[linesS
scrollUp(lines) == [seq |-> "scrollUp", lines |-> lines]

\* clearScreen(): ESC[2J
clearScreen == [seq |-> "clearScreen"]

\* clearLine(): ESC[K
clearLine == [seq |-> "clearLine"]

ENTER_ALT_SCREEN == [seq |-> "enterAltScreen"]
EXIT_ALT_SCREEN == [seq |-> "exitAltScreen"]
HIDE_CURSOR == [seq |-> "hideCursor"]
SHOW_CURSOR == [seq |-> "showCursor"]

\* plain text and colour bytes
Text(parts) == [seq |-> "text", text |-> parts]

\* '\u0007', the bell character
BEL == "U+0007"

\* process.stdout.write('\u0007')
Bell == <<Text(<<BEL>>)>>

\* the fallbacks of getTerminalSize
DefaultColumns == 80
DefaultRows == 24

\* getTerminalSize(): process.stdout.columns || 80, process.stdout.rows || 24
getTerminalSize(so) ==
    [width |-> IF so.columns = 0 THEN DefaultColumns ELSE so.columns,
     height |-> IF so.rows = 0 THEN DefaultRows ELSE so.rows]

\* isTTY(): process.stdout.isTTY || false
isTTY(so) == so.isTTY

\* enterAltScreen writing its sequence whatever the flag
enterAltScreen_Unguarded(flag, so) ==
    IF so.isTTY THEN [flag |-> TRUE, out |-> <<ENTER_ALT_SCREEN>>]
    ELSE [flag |-> flag, out |-> <<>>]

\* enterAltScreen(): the flag after the call and what was written
enterAltScreen(flag, so) ==
    IF ~flag /\ so.isTTY THEN [flag |-> TRUE, out |-> <<ENTER_ALT_SCREEN>>]
    ELSE [flag |-> flag, out |-> <<>>]

\* exitAltScreen()
exitAltScreen(flag, so) ==
    IF flag /\ so.isTTY THEN [flag |-> FALSE, out |-> <<EXIT_ALT_SCREEN>>]
    ELSE [flag |-> flag, out |-> <<>>]

\* hideCursor()
hideCursor(flag, so) ==
    IF ~flag /\ so.isTTY THEN [flag |-> TRUE, out |-> <<HIDE_CURSOR>>]
    ELSE [flag |-> flag, out |-> <<>>]

\* showCursor()
showCursor(flag, so) ==
    IF flag /\ so.isTTY THEN [flag |-> FALSE, out |-> <<SHOW_CURSOR>>]
    ELSE [flag |-> flag, out |-> <<>>]

\* the flags of TerminalControl with what the running handler wrote so far
TerminalState(hidden, alt, written) ==
    [cursorHidden |-> hidden, inAltScreen |-> alt, out |-> written]

\* the cleanup of setupCleanExit leaving the alternate screen alone
cleanup_CursorOnly(ts, so) ==
    TerminalState(showCursor(ts.cursorHidden, so).flag, ts.inAltScreen,
                  ts.out \o showCursor(ts.cursorHidden, so).out)

\* the cleanup of setupCleanExit: showCursor(); exitAltScreen()
cleanup(ts, so) ==
    TerminalState(showCursor(ts.cursorHidden, so).flag,
                  exitAltScreen(ts.inAltScreen, so).flag,
                  ts.out \o showCursor(ts.cursorHidden, so).out
                         \o exitAltScreen(ts.inAltScreen, so).out)

\* console.clear() of Node: cursor home and clear down on a TTY, nothing otherwise
consoleClear(so) ==
    IF so.isTTY THEN <<[seq |-> "cursorHome"], [seq |-> "clearScreenDown"]>> ELSE <<>>

\* console.log(line)
consoleLog(parts) == <<Text(parts), Text(<<"\n">>)>>

----------------------------------------------------------------------------
(* The texts written, a character each *)

\* the decimal digit d
Digit(d) == <<"0", "1", "2", "3", "4", "5", "6", "7", "8", "9">>[d + 1]

\* `${n}` of an integer that is not negative
RECURSIVE Digits(_)
Digits(n) == IF n < 10 THEN <<Digit(n)>> ELSE Digits(n \div 10) \o <<Digit(n % 10)>>

\* a part of a time with '2-digit'
TwoDigits(n) == <<Digit((n \div 10) % 10), Digit(n % 10)>>

\* formatTime(date): toLocaleTimeString('en-US') with hour12: false and two digits for
\* the hour, the minute and the second; the sample of timestamp n is taken n seconds
\* after noon. With hour12: false the en-US hours run from 01 to 24: the hour after
\* midnight is printed 24, never 00
formatTime(timestamp) ==
    LET seconds == (12 * 3600 + timestamp) % (24 * 3600)
        hour == IF seconds \div 3600 = 0 THEN 24 ELSE seconds \div 3600
    IN TwoDigits(hour) \o <<":">> \o TwoDigits((seconds \div 60) % 60)
          \o <<":">> \o TwoDigits(seconds % 60)

\* private startTime: Date = new Date(), in ms
startTime == Epoch

\* formatElapsedTime(currentTime), the time in ms
formatElapsedTime(currentTime) ==
    LET elapsedMs == currentTime - startTime
        elapsedSeconds == elapsedMs \div 1000
        hours == elapsedSeconds \div 3600
        minutes == (elapsedSeconds % 3600) \div 60
        seconds == elapsedSeconds % 60
    IN IF hours > 0
       THEN Digits(hours) \o <<"h", " ">> \o Digits(minutes) \o <<"m", " ">>
               \o Digits(seconds) \o <<"s">>
       ELSE IF minutes > 0 THEN Digits(minutes) \o <<"m", " ">> \o Digits(seconds) \o <<"s">>
       ELSE Digits(seconds) \o <<"s">>

\* the digits toFixed(1) prints for a number of tenths
Decimal1(tenths) ==
    IF tenths < 0 THEN <<"-">> \o Digits((-tenths) \div 10) \o <<".", Digit((-tenths) % 10)>>
    ELSE Digits(tenths \div 10) \o <<".", Digit(tenths % 10)>>

\* `${x?.toFixed(1)}`: the digits, or undefined
Fixed1Text(fixed) ==
    IF fixed[1] = "undefined" THEN <<"u", "n", "d", "e", "f", "i", "n", "e", "d">>
    ELSE Decimal1(fixed[2])

\* the error messages of ping-engine.ts and the TIMEOUT of the renderer
ErrorText(error) ==
    CASE error = "TIMEOUT" -> <<"T", "I", "M", "E", "O", "U", "T">>
      [] error = "Timeout" -> <<"T", "i", "m", "e", "o", "u", "t">>
      [] error = "Ping failed" -> <<"P", "i", "n", "g", " ", "f", "a", "i", "l", "e", "d">>
      [] error = "ping: unknown host" ->
            <<"p", "i", "n", "g", ":", " ", "u", "n", "k", "n", "o", "w", "n", " ", "h", "o", "s",
      "t">>
      [] error = "spawn ping ENOENT" ->
            <<"s", "p", "a", "w", "n", " ", "p", "i", "n", "g", " ", "E", "N", "O", "E", "N", "T">>
      [] error = "kill EPERM" -> <<"k", "i", "l", "l", " ", "E", "P", "E", "R", "M">>

\* this.host, this.interval and this.timeout of the renderer: the defaults of cli.ts, for
\* a host of one letter
thisHost == <<"h">>
thisInterval == 1000
thisTimeout == 1000

\* the title of the header; the first four characters are those the source file holds
\* where an emoji was meant
TitleText ==
    <<"U+00F0", "U+0178", "U+201D", "U+2014", " ", "P", "i", "n", "g", "L", "i", "n", "k",
      " ", "v", "1", ".", "0", ".", "0", " ", "-", " ", "V", "i", "s", "u", "a", "l", " ",
      "P", "i", "n", "g", " ", "M", "o", "n", "i", "t", "o", "r", " ", "(", "R", "u", "n",
      "n", "i", "n", "g", " ", "c", "o", "n", "t", "i", "n", "u", "o", "u", "s", "l", "y",
      ")">>

\* `Target: ${this.host} | Interval: ${this.interval}ms | Timeout: ${this.timeout}ms |
\* Press Ctrl+C to quit`
TargetText ==
    <<"T", "a", "r", "g", "e", "t", ":", " ">> \o thisHost
       \o <<" ", "|", " ", "I", "n", "t", "e", "r", "v", "a", "l", ":", " ">>
       \o Digits(thisInterval)
       \o <<"m", "s", " ", "|", " ", "T", "i", "m", "e", "o", "u", "t", ":", " ">>
       \o Digits(thisTimeout)
       \o <<"m", "s", " ", "|", " ", "P", "r", "e", "s", "s", " ", "C", "t", "r", "l", "+", "C",
      " ", "t", "o", " ", "q", "u", "i", "t">>

\* the legend of the header: per category the colour, the characters the source file
\* holds where the glyph was meant, the range, the reset and a space
LegendText ==
    <<DefaultColors(EXCELLENT)>>
       \o <<"U+00C2", "U+00B7", " ", "0", "-", "5", "0">> \o <<RESET_COLOR, " ">>
       \o <<DefaultColors(GOOD)>>
       \o <<"U+00E2", "U+02C6", "U+2122", " ", "5", "0", "-", "1", "0", "0">> \o <<RESET_COLOR, " ">>
       \o <<DefaultColors(FAIR)>>
       \o <<"U+00E2", "U+2013", "U+00AA", " ", "1", "0", "0", "-", "2", "0", "0">> \o <<RESET_COLOR, " ">>
       \o <<DefaultColors(POOR)>>
       \o <<"U+00E2", "U+2013", "U+00A0", " ", "2", "0", "0", "-", "5", "0", "0">> \o <<RESET_COLOR, " ">>
       \o <<DefaultColors(VERY_POOR)>>
       \o <<"U+00E2", "U+2013", "U+00A0", " ", ">", "5", "0", "0">> \o <<RESET_COLOR, " ">>
       \o <<DefaultColors(FAILED)>>
       \o <<"U+00E2", "U+2013", "U+00A1", " ", "F", "A", "I", "L">> \o <<RESET_COLOR>>
       \o <<" ", "(", "m", "s", ")">>

\* `[${timestamp}] ${this.host}: ${color}${ping.latency?.toFixed(1)}ms${RESET_COLOR}`, or
\* with `${colors.failed}${ping.error || 'TIMEOUT'}${RESET_COLOR}` for a failure
LatestLineText(parts) ==
    <<"[">> \o formatTime(parts[2]) \o <<"]", " ">> \o thisHost \o <<":", " ", parts[4]>>
       \o (IF Len(parts) = 7 THEN Fixed1Text(parts[5]) \o <<"m", "s">>
           ELSE ErrorText(parts[5]))
       \o <<RESET_COLOR>>

\* statsContent and finalStats of updateStatsDisplay, stats.elapsedTime being the text
\* calculateStats made of the time elapsed
StatsLineText(parts) ==
    <<"R", "u", "n", "t", "i", "m", "e", ":", " ">> \o <<DefaultColors(GOOD)>>
       \o parts[2] \o <<RESET_COLOR>>
       \o <<" ", "|", " ", "T", "o", "t", "a", "l", ":", " ">> \o Digits(parts[4])
       \o <<" ", "|", " ", "S", "u", "c", "c", "e", "s", "s", ":", " ">>
       \o <<DefaultColors(EXCELLENT)>> \o Decimal1(parts[6][2]) \o <<"%", RESET_COLOR>>
       \o <<" ", "|", " ", "L", "o", "s", "s", ":", " ">>
       \o <<DefaultColors(FAILED)>> \o Decimal1(parts[8][2]) \o <<"%", RESET_COLOR>>
       \o <<" ", "|", " ", "A", "v", "g", ":", " ">>
       \o <<DefaultColors(GOOD)>> \o Decimal1(parts[10][2]) \o <<"m", "s", RESET_COLOR>>
       \o (IF Len(parts) > 10
           THEN <<" ", "|", " ", "M", "i", "n", ":", " ">>
                   \o <<DefaultColors(EXCELLENT)>> \o Decimal1(parts[12][2])
                   \o <<"m", "s", RESET_COLOR>>
                   \o <<" ", "|", " ", "M", "a", "x", ":", " ">>
                   \o <<DefaultColors(POOR)>> \o Decimal1(parts[14][2])
                   \o <<"m", "s", RESET_COLOR>>
           ELSE <<>>)

\* the farewell of destroy(): a line break, the characters the source file holds where
\* an emoji was meant, and the words
FarewellText ==
    <<"\n", "U+00F0", "U+0178", "U+2018", "U+2039">>
       \o <<" ", "V", "i", "s", "u", "a", "l", " ", "m", "o", "n", "i", "t", "o", "r", " ", "e",
      "n", "d", "e", "d", ".">>

\* the characters and colour codes of a text, in the order written; the coloured glyph
\* of a dot is its colour, its character and the reset already
Spelled(parts) ==
    IF parts = <<>> THEN <<>>
    ELSE CASE parts[1] = "title" -> TitleText
           [] parts[1] = "\n" /\ Len(parts) = 2 -> FarewellText
           [] parts[1] = "target" -> TargetText
           [] parts[1] = "legend" -> LegendText
           [] parts[1] = "time" -> LatestLineText(parts)
           [] parts[1] = "Runtime" -> StatsLineText(parts)
           [] OTHER -> parts

----------------------------------------------------------------------------
(* The terminal: what the sequences and characters written do to its screen *)

\* a screen no cell of which is painted
NoCells == [k \in {} |-> <<>>]

\* the screen of a terminal before anything was written: nothing painted, the cursor at
\* home, no scroll region set (top = 0: the whole screen scrolls), no colour selected
BlankScreen == [cells |-> NoCells, cursor |-> <<1, 1>>, top |-> 0, bottom |-> 0, color |-> ""]

\* the cells without those at the given places
Without(cells, places) == [k \in (DOMAIN cells) \ places |-> cells[k]]


\* the colour codes of the scheme and the reset
ColorCodes == {DefaultColors(category) : category \in LatencyCategory} \cup {RESET_COLOR}

\* what a cell holds: a character, between its colour and the reset when it is coloured
Cell(color, char) == IF color = "" THEN <<char>> ELSE <<color, char, RESET_COLOR>>

\* the cells with the given content painted at the given place
Painted(cells, place, content) == (place :> content) @@ cells

\* the cells with a character painted at the given place: a space leaves the cell blank
\* as an erased one is
PaintedChar(cells, place, color, char) ==
    IF char = " " THEN Without(cells, {place}) ELSE Painted(cells, place, Cell(color, char))

\* the cell holds the coloured glyph of a dot: `${color}${char}${RESET_COLOR}`
IsGlyphText(parts) == Len(parts) = 3 /\ parts[2] \in Glyphs

\* the places of a row from a column on
RestOfRow(cells, row, col) == {k \in DOMAIN cells : k[1] = row /\ k[2] >= col}

\* ESC[nS: the rows of the scroll region move up by n, the rows outside stay
ScrolledUp(scr, lines, height) ==
    LET top == IF scr.top = 0 THEN 1 ELSE scr.top
        bottom == IF scr.top = 0 THEN height ELSE scr.bottom
        Inside(k) == top <= k[1] /\ k[1] <= bottom
        kept == {k \in DOMAIN scr.cells : ~Inside(k)}
        moved == {<<k[1] - lines, k[2]>> : k \in {c \in DOMAIN scr.cells :
                                                    Inside(c) /\ c[1] - lines >= top}}
    IN [scr EXCEPT !.cells = [k \in kept \cup moved |->
                                IF k \in kept THEN scr.cells[k]
                                ELSE scr.cells[<<k[1] + lines, k[2]>>]]]

\* a line feed: on the bottom row of the scroll region the region scrolls up, on the
\* last row of the screen below the region nothing moves, elsewhere the cursor goes down
LineFed(scr, height) ==
    LET bottom == IF scr.top = 0 THEN height ELSE scr.bottom
    IN IF scr.cursor[1] = bottom THEN ScrolledUp(scr, 1, height)
       ELSE IF scr.cursor[1] >= height THEN scr
       ELSE [scr EXCEPT !.cursor = <<scr.cursor[1] + 1, scr.cursor[2]>>]

\* the screen after one character or colour code of a text: a colour code selects the
\* colour of the characters that follow, the bell leaves the screen as it is, a
\* character is painted at the cursor, which
\* moves right; a cursor past the last column (column width + 1) wraps to the next
\* line before the character is painted
Typed(scr, c, width, height) ==
    IF c \in ColorCodes THEN [scr EXCEPT !.color = IF c = RESET_COLOR THEN "" ELSE c]
    ELSE IF c = BEL THEN scr
    ELSE IF c = "\n"
    THEN LET fed == LineFed(scr, height) IN [fed EXCEPT !.cursor = <<fed.cursor[1], 1>>]
    ELSE LET fed == LineFed(scr, height)
             at == IF scr.cursor[2] > width
                   THEN [fed EXCEPT !.cursor = <<fed.cursor[1], 1>>] ELSE scr
         IN [at EXCEPT !.cells = PaintedChar(at.cells, at.cursor, at.color, c),
                       !.cursor = <<at.cursor[1], at.cursor[2] + 1>>]

\* the screen after the characters lo..hi of a text, r being the screen before them and
\* the two indices
RECURSIVE TypedRange(_, _, _, _)
TypedRange(r, chars, width, height) ==
    IF r.lo > r.hi THEN r.scr
    ELSE IF r.lo = r.hi THEN Typed(r.scr, chars[r.lo], width, height)
    ELSE LET mid == (r.lo + r.hi) \div 2
         IN TypedRange([scr |-> TypedRange([scr |-> r.scr, lo |-> r.lo, hi |-> mid],
                                           chars, width, height),
                        lo |-> mid + 1, hi |-> r.hi],
                       chars, width, height)

\* the screen after one sequence or text written
Written1(scr, w, width, height) ==
    CASE w.seq = "moveTo" ->
            [scr EXCEPT !.cursor = <<Max2(1, Min2(w.row, height)), Max2(1, Min2(w.col, width))>>]
      [] w.seq = "clearLine" ->
            [scr EXCEPT !.cells = Without(scr.cells,
                                          RestOfRow(scr.cells, scr.cursor[1], scr.cursor[2]))]
      [] w.seq = "clearScreen" -> [scr EXCEPT !.cells = NoCells]
      [] w.seq = "setScrollRegion" ->
            \* a region of less than two rows is not taken: nothing changes
            LET top == Max2(1, Min2(w.top, height))
                bottom == Max2(1, Min2(w.bottom, height))
            IN IF top >= bottom THEN scr
               ELSE [scr EXCEPT !.top = top, !.bottom = bottom, !.cursor = <<1, 1>>]
      [] w.seq = "scrollUp" -> ScrolledUp(scr, w.lines, height)
      [] w.seq \in {"enterAltScreen", "exitAltScreen"} ->
            [scr EXCEPT !.cells = NoCells, !.cursor = <<1, 1>>]
      [] w.seq \in {"hideCursor", "showCursor"} -> scr
      [] w.seq = "cursorHome" -> [scr EXCEPT !.cursor = <<1, 1>>]
      [] w.seq = "clearScreenDown" ->
            [scr EXCEPT !.cells = Without(scr.cells,
                                          {k \in DOMAIN scr.cells : k[1] >= scr.cursor[1]})]
      [] w.seq = "text" ->
            TypedRange([scr |-> scr, lo |-> 1, hi |-> Len(Spelled(w.text))],
                       Spelled(w.text), width, height)

\* the screen after the sequences and texts lo..hi of what was written, r being the
\* screen before them and the two indices
RECURSIVE WrittenRange(_, _, _, _)
WrittenRange(r, written, width, height) ==
    IF r.lo > r.hi THEN r.scr
    ELSE IF r.lo = r.hi THEN Written1(r.scr, written[r.lo], width, height)
    ELSE LET mid == (r.lo + r.hi) \div 2
         IN WrittenRange([scr |-> WrittenRange([scr |-> r.scr, lo |-> r.lo, hi |-> mid],
                                               written, width, height),
                          lo |-> mid + 1, hi |-> r.hi],
                         written, width, height)

\* the screen of a terminal nothing watches
NoScreen == [cells |-> NoCells, cursor |-> <<0, 0>>, top |-> 0, bottom |-> 0, color |-> ""]

\* the screen after the terminal changed its size: a change of the height makes the
\* scroll region the whole screen again, a change of the width alone leaves the region
\* in force; rows that no longer fit go, those below the cursor first and then those at
\* the top, and so do the columns that no longer fit
Resized(scr, old, new) ==
    IF scr = NoScreen \/ old = new THEN scr
    ELSE LET needed == Max2(0, old.height - new.height)
             below == Max2(0, Min2(needed, old.height - scr.cursor[1]))
             above == Max2(0, Min2(needed - below, scr.cursor[1] - 1))
             kept == {k \in DOMAIN scr.cells :
                         /\ k[1] > above
                         /\ k[1] - above <= new.height
                         /\ k[2] <= new.width}
         IN [cells |-> [k \in {<<p[1] - above, p[2]>> : p \in kept} |->
                           scr.cells[<<k[1] + above, k[2]>>]],
             cursor |-> <<Min2(scr.cursor[1] - above, new.height),
                          Min2(scr.cursor[2], new.width)>>,
             top |-> IF old.height = new.height THEN scr.top ELSE 0,
             bottom |-> IF old.height = new.height THEN scr.bottom ELSE 0,
             color |-> scr.color]

\* process.stdout.write(output), console.log(line): the screen after them; a stream
\* that is no terminal has no screen to change
Display(scr, written, so) ==
    IF scr = NoScreen \/ ~so.isTTY THEN scr
    ELSE WrittenRange([scr |-> scr, lo |-> 1, hi |-> Len(written)], written,
                      getTerminalSize(so).width, getTerminalSize(so).height)

\* no getResults call was made yet
NoReturn == [count |-> -1, dots |-> <<>>, repeated |-> FALSE]

----------------------------------------------------------------------------
(* data-manager.ts *)

\* private maxResults: number = 1000
maxResults == 1000

\* saveResult(result): the results after it
saveResult(saved, result) ==
    LET pushed == Append(saved, result)
    IN IF Len(pushed) > maxResults
       THEN SubSeq(pushed, Len(pushed) - maxResults + 1, Len(pushed))
       ELSE pushed

\* clearHistory(): this.results = []
clearHistory == <<>>

\* getResults() handing out this.results itself
getResultsCall_SameArray(saved) == [result |-> saved, shared |-> TRUE]

\* getResults() without a timeframe: [...this.results], a new array of the same
\* elements; shared tells whether the array returned is the stored one
getResultsCall(saved) == [result |-> saved, shared |-> FALSE]

\* what is left of an array a caller was given once the caller has set its length to 0
Emptied == [count |-> 0, dots |-> <<>>, repeated |-> FALSE]

\* latencies.reduce((a, b) => a + b, 0) over the elements lo..hi
RECURSIVE SumRange(_, _, _)
SumRange(seq, lo, hi) ==
    IF lo > hi THEN 0
    ELSE IF lo = hi THEN seq[lo]
    ELSE LET mid == (lo + hi) \div 2
         IN SumRange(seq, lo, mid) + SumRange(seq, mid + 1, hi)

SumSeq(seq) == SumRange(seq, 1, Len(seq))

\* Math.min over the elements lo..hi, lo <= hi
RECURSIVE MinRange(_, _, _)
MinRange(seq, lo, hi) ==
    IF lo = hi THEN seq[lo]
    ELSE LET mid == (lo + hi) \div 2
         IN Min2(MinRange(seq, lo, mid), MinRange(seq, mid + 1, hi))

\* Math.min(...latencies), latencies not empty
MinOf(seq) == MinRange(seq, 1, Len(seq))

\* Math.max over the elements lo..hi, lo <= hi
RECURSIVE MaxRange(_, _, _)
MaxRange(seq, lo, hi) ==
    IF lo = hi THEN seq[lo]
    ELSE LET mid == (lo + hi) \div 2
         IN Max2(MaxRange(seq, lo, mid), MaxRange(seq, mid + 1, hi))

\* Math.max(...latencies), latencies not empty
MaxOf(seq) == MaxRange(seq, 1, Len(seq))

\* a quotient of two integers before the division is carried out: num / den
Ratio(num, den) == [num |-> num, den |-> den]

\* the mean of latencies before it is computed: their sum, their number and the
\* latencies in the order reduce() adds them; no latencies stand for the number 0
Mean(latencies) ==
    [num |-> SumSeq(latencies), den |-> Max2(Len(latencies), 1), terms |-> latencies]

\* calculateStats counting every result with success = true as successful
calculateStats_FlagOnly(data, currentTime) ==
    LET successfulResults == SelectSeq(data, LAMBDA r : r.success)
    IN [totalPings |-> Len(data),
        successfulPings |-> Len(successfulResults),
        failedPings |-> Len(data) - Len(successfulResults),
        averageLatency |-> Mean(<<>>), minLatency |-> 0, maxLatency |-> 0,
        packetLoss |-> Ratio((Len(data) - Len(successfulResults)) * 100, Max2(Len(data), 1)),
        elapsedTime |-> formatElapsedTime(currentTime)]

\* calculateStats(results?) on the given data, new Date() being the time given;
\* latencies in 1/Scale ms, the average and the packet loss as their operands
\* (AverageLatency and PacketLoss give the numbers), elapsedTime as its characters
calculateStats(data, currentTime) ==
    IF Len(data) = 0
    THEN [totalPings |-> 0, successfulPings |-> 0, failedPings |-> 0,
          averageLatency |-> Mean(<<>>), minLatency |-> 0, maxLatency |-> 0,
          packetLoss |-> Ratio(0, 1), elapsedTime |-> formatElapsedTime(currentTime)]
    ELSE LET IsSuccessful(r) == r.success /\ r.latency # Undefined
             successfulResults == SelectSeq(data, IsSuccessful)
             latencies == [i \in 1..Len(successfulResults) |-> successfulResults[i].latency]
         IN [totalPings |-> Len(data),
             successfulPings |-> Len(successfulResults),
             failedPings |-> Len(data) - Len(successfulResults),
             averageLatency |-> Mean(latencies),
             minLatency |-> IF Len(latencies) > 0 THEN MinOf(latencies) ELSE 0,
             maxLatency |-> IF Len(latencies) > 0 THEN MaxOf(latencies) ELSE 0,
             packetLoss |-> Ratio((Len(data) - Len(successfulResults)) * 100, Len(data)),
             elapsedTime |-> formatElapsedTime(currentTime)]

----------------------------------------------------------------------------
(* sound-engine.ts, ping-engine.ts *)

\* processResult counting a success as a recovery unless the last result was a success
processResult_UnlessLastSucceeded(last, failures, result) ==
    [wasRecovery |-> last # "true" /\ result.success,
     lastPingSuccess |-> IF result.success THEN "true" ELSE "false",
     consecutiveFailures |-> IF result.success THEN 0 ELSE failures + 1]

\* processResult(result) that keeps the count of failures on a success
processResult_KeepsCount(last, failures, result) ==
    [wasRecovery |-> last = "false" /\ result.success /\ failures > 0,
     lastPingSuccess |-> IF result.success THEN "true" ELSE "false",
     consecutiveFailures |-> IF result.success THEN failures ELSE failures + 1]

\* processResult(result): what it returns and the fields after it
processResult(last, failures, result) ==
    [wasRecovery |-> last = "false" /\ result.success /\ failures > 0,
     lastPingSuccess |-> IF result.success THEN "true" ELSE "false",
     consecutiveFailures |-> IF result.success THEN 0 ELSE failures + 1]

\* private failureCooldown: number = 500
failureCooldown == 500

\* the delay of setTimeout(() => process.stdout.write('\u0007'), 100)
BellDelay == 100

\* process.platform: a platform playTone has a command for, and one it has none for
Platforms == {"linux", "freebsd"}

\* an alert that wrote nothing and set no timer
Silent(last) == [lastFailureTime |-> last, out |-> <<>>, timer |-> <<>>]

\* playFailureAlert() with Date.now() as given: lastFailureTime after it, what it wrote
\* to stdout and the delays of the timers it set. The commands playSystemBeep runs
\* have no stdout
playFailureAlert(cfg, last, currentTime) ==
    IF ~cfg.sound THEN Silent(last)
    ELSE IF currentTime - last < failureCooldown THEN Silent(last)
    ELSE [lastFailureTime |-> currentTime, out |-> Bell, timer |-> <<>>]

\* playRecoveryAlert(): a bell, and a timer for the second bell
playRecoveryAlert(cfg, last) ==
    IF ~cfg.sound THEN Silent(last)
    ELSE [lastFailureTime |-> last, out |-> Bell, timer |-> <<BellDelay>>]

\* playTone(frequency, duration) up to its first await: the bell where it knows no
\* command for the platform
playTone(platform) == IF platform \in {"darwin", "linux", "win32"} THEN <<>> ELSE Bell

\* playLatencySound(result) up to its first await
playLatencySound(cfg, last, result) ==
    IF ~cfg.sound \/ ~cfg.frequencySound THEN Silent(last)
    ELSE IF ~result.success \/ result.latency = Undefined THEN Silent(last)
    ELSE [lastFailureTime |-> last, out |-> playTone(cfg.platform), timer |-> <<>>]

\* the alert the 'result' listener plays for a result, isRecovery being what
\* processResult(result) returned
playAlert(cfg, last, currentTime, result, isRecovery) ==
    IF ~result.success THEN playFailureAlert(cfg, last, currentTime)
    ELSE IF isRecovery THEN playRecoveryAlert(cfg, last)
    ELSE IF cfg.frequencySound THEN playLatencySound(cfg, last, result)
    ELSE Silent(last)

\* pingProcess: NodeJS.Timeout | null = null, and no ping in flight
NoTimer == -1

\* ghost: what happened since the last stopPing(): the pings in flight when it was
\* called, the pings whose 'result' was emitted since, the pings spawned since
NoWindow == [atStop |-> {}, results |-> <<>>, spawned |-> {}]

\* a PingEngine as constructed: pingProcess null, no ping in flight, no timer pending
\* (isRunning, false, is the variable of that name). Pings and timers are numbered in
\* the order they are made; pingProcess holds the number of the timer set last
NoEngine ==
    [flights |-> {}, pending |-> {}, pingProcess |-> NoTimer, made |-> 0, window |-> NoWindow]

\* doPing up to its await: nothing when the engine is stopped, else ping() is called
doPing(e, running) ==
    IF ~running THEN e
    ELSE [e EXCEPT !.flights = @ \cup {e.made + 1}, !.made = @ + 1]

\* doPing from its await on: the ping has resolved and 'result' was emitted; the timer
\* of the next doPing is set when the engine is running
doPingResumed(e, running, ping) ==
    LET landed == [e EXCEPT !.flights = @ \ {ping}]
    IN IF running
       THEN [landed EXCEPT !.pending = @ \cup {landed.made + 1},
                           !.pingProcess = landed.made + 1,
                           !.made = @ + 1]
       ELSE landed

\* startContinuousPing()
startContinuousPing(e, running) ==
    IF running THEN [engine |-> e, isRunning |-> running]
    ELSE [engine |-> doPing(e, TRUE), isRunning |-> TRUE]

\* stopPing(): clearTimeout of a timer that fired already does nothing
stopPing(e) ==
    [engine |-> IF e.pingProcess # NoTimer
                THEN [e EXCEPT !.pending = @ \ {e.pingProcess}, !.pingProcess = NoTimer]
                ELSE e,
     isRunning |-> FALSE]

\* the exit code null that 'close' carries when a signal ended the subprocess
NullCode == -1

\* no call of ping() yet
NoCall ==
    [timestamp |-> 0, timeoutId |-> "none", killed |-> FALSE, kill |-> "none",
     closed |-> FALSE, errored |-> FALSE, promise |-> [state |-> "none"], first |-> "none",
     emitted |-> <<>>]

\* ping() up to the end of the executor: the subprocess is spawned, the timeout timer
\* set, the listeners registered; emitted is what doPing has emitted for this call,
\* kill how the kill() of the timeout callback went
NewCall(timestamp) ==
    [timestamp |-> timestamp, timeoutId |-> "pending", killed |-> FALSE, kill |-> "none",
     closed |-> FALSE, errored |-> FALSE, promise |-> [state |-> "pending"],
     first |-> "none", emitted |-> <<>>]

\* resolve(value) of a promise whose later value replaces the earlier one
resolve_Overwrites(c, value) == [c EXCEPT !.promise = [state |-> "fulfilled", value |-> value]]

\* resolve(value) of the promise ping() returns: a settled promise stays as it is
resolve(c, value) ==
    IF c.promise.state = "pending"
    THEN [c EXCEPT !.promise = [state |-> "fulfilled", value |-> value]]
    ELSE c

\* clearTimeout(timeoutId)
clearTimeoutId(c) == [c EXCEPT !.timeoutId = IF @ = "pending" THEN "cleared" ELSE @]

\* the listener of 'close'; latency is parseLatency(output)
onClose(c, code, latency, errorOutput) ==
    LET cleared == clearTimeoutId([c EXCEPT !.closed = TRUE])
    IN IF code = 0
       THEN resolve(cleared, [timestamp |-> c.timestamp, success |-> TRUE,
                              latency |-> latency, error |-> ""])
       ELSE resolve(cleared, [timestamp |-> c.timestamp, success |-> FALSE,
                              latency |-> Undefined,
                              error |-> IF errorOutput # "" THEN errorOutput
                                        ELSE "Ping failed"])

\* the listener of 'error'
onError(c, message) ==
    resolve(clearTimeoutId([c EXCEPT !.errored = TRUE]),
            [timestamp |-> c.timestamp, success |-> FALSE, latency |-> Undefined,
             error |-> message])

\* how pingProcess.kill() can go: the signal is sent; the subprocess has exited already
\* and nothing happens; or the system refuses the signal, and kill() emits 'error' on the
\* subprocess before it returns
KillOutcomes == {"sent", "gone", "EPERM"}

\* the callback of the timeout timer: pingProcess.kill(), during which the listener of
\* 'error' runs when the signal is refused, then resolve() with the failure 'Timeout'
onTimeout(c, outcome) ==
    LET fired == [c EXCEPT !.timeoutId = "fired", !.kill = outcome]
        killed == CASE outcome = "sent" -> [fired EXCEPT !.killed = TRUE]
                    [] outcome = "EPERM" -> onError(fired, "kill EPERM")
                    [] OTHER -> fired
    IN resolve(killed, [timestamp |-> c.timestamp, success |-> FALSE, latency |-> Undefined,
                        error |-> "Timeout"])

\* what doPing has emitted once the event loop is done with a callback of ping(): when
\* the callback settled the promise, the await ends before any other callback runs, and
\* doPing emits 'result' for a fulfilled promise, 'error' for a rejected one
doPingAwait(before, after) ==
    IF before.promise.state = "pending" /\ after.promise.state # "pending"
    THEN Append(before.emitted,
                [event |-> IF after.promise.state = "fulfilled" THEN "result" ELSE "error",
                 value |-> after.promise.value])
    ELSE before.emitted

----------------------------------------------------------------------------
(* simple-graph-renderer.ts *)

\* headerHeight: number = 5
headerHeight == 5

\* graphTop: number = 6
graphTop == 6

\* rows kept for the header and the statistics: Math.max(1, height - 8)
ReservedRows == 8

\* the height of the grid without the floor of one row
GraphHeightFor_Unclamped(height) == height - ReservedRows

\* Math.max(1, height - 8)
GraphHeightFor(height) == Max2(1, height - ReservedRows)

\* the legend line of the header
Legend == <<"legend">>

\* drawStaticHeader()
drawStaticHeader ==
    <<moveTo(1, 1), Text(<<"title">>), moveTo(2, 1), Text(<<"target">>),
      moveTo(4, 1), Text(Legend)>>

\* showStaticHeader()
showStaticHeader ==
    consoleLog(<<"title">>) \o consoleLog(<<"target">>) \o consoleLog(<<>>)
        \o consoleLog(Legend) \o consoleLog(<<>>)

\* the colour renderLatestPing picks for a successful ping
LatestColor(ping) ==
    LET category == categorizeLatency(ping.latency)
    IN IF category \in {GOOD, FAIR, POOR, VERY_POOR}
       THEN DefaultColors(category) ELSE DefaultColors(EXCELLENT)

\* ping.latency?.toFixed(1): tenths of a millisecond, rounded
ToFixed1(latency) ==
    IF latency = Undefined THEN <<"undefined">>
    ELSE <<"tenths", (2 * 10 * latency + Scale) \div (2 * Scale)>>

\* the line both renderLatestPing and renderLatestPingFallback print
LatestLine(ping) ==
    IF ping.success
    THEN <<"time", ping.timestamp, "host", LatestColor(ping), ToFixed1(ping.latency), "ms",
           RESET_COLOR>>
    ELSE <<"time", ping.timestamp, "host", DefaultColors(FAILED),
           IF ping.error = "" THEN "TIMEOUT" ELSE ping.error, RESET_COLOR>>

\* renderLatestPingFallback(ping)
renderLatestPingFallback(ping) == consoleLog(LatestLine(ping))

\* renderLatestPing addressing the cursor without testing isTTY()
renderLatestPing_AlwaysPositions(so, ping) ==
    <<moveTo(getTerminalSize(so).height - 2, 1), clearLine, Text(LatestLine(ping))>>

\* renderLatestPing(ping)
renderLatestPing(so, ping) ==
    IF ~isTTY(so) THEN renderLatestPingFallback(ping)
    ELSE <<moveTo(getTerminalSize(so).height - 2, 1), clearLine, Text(LatestLine(ping))>>

\* renderIncrementalUpdate scrolling on the justWrapped flag of getCurrentPosition
renderIncrementalUpdate_ScrollOnJustWrapped(d, gw, gh, so, dot) ==
    LET writeCount == getWriteCount(d)
        pos == getCurrentPosition(d)
        paint ==
            IF writeCount <= getCapacity(d)
            THEN <<moveTo(graphTop + pos.row, pos.col + 1), Text(dot.colorCode)>>
            ELSE IF pos.justWrapped
            THEN <<setScrollRegion(graphTop, graphTop + gh - 1), scrollUp(1),
                   moveTo(graphTop + gh - 1, 1), Text(dot.colorCode)>>
            ELSE <<moveTo(graphTop + gh - 1, pos.col + 1), Text(dot.colorCode)>>
    IN paint \o renderLatestPing(so, dot.ping)

\* renderIncrementalUpdate addressing the columns from 0
renderIncrementalUpdate_ZeroBasedColumn(d, gw, gh, so, dot) ==
    LET writeCount == getWriteCount(d)
        pos == getCurrentPosition(d)
        paint ==
            IF writeCount <= getCapacity(d)
            THEN <<moveTo(graphTop + pos.row, pos.col), Text(dot.colorCode)>>
            ELSE IF pos.col = 0 /\ writeCount > getCapacity(d)
            THEN <<setScrollRegion(graphTop, graphTop + gh - 1), scrollUp(1),
                   moveTo(graphTop + gh - 1, 1), Text(dot.colorCode)>>
            ELSE <<moveTo(graphTop + gh - 1, pos.col + 1), Text(dot.colorCode)>>
    IN paint \o renderLatestPing(so, dot.ping)

\* renderIncrementalUpdate(dot), the renderer's grid being gw x gh
renderIncrementalUpdate(d, gw, gh, so, dot) ==
    LET writeCount == getWriteCount(d)
        pos == getCurrentPosition(d)
        paint ==
            IF writeCount <= getCapacity(d)
            THEN <<moveTo(graphTop + pos.row, pos.col + 1), Text(dot.colorCode)>>
            ELSE IF pos.col = 0 /\ writeCount > getCapacity(d)
            THEN <<setScrollRegion(graphTop, graphTop + gh - 1), scrollUp(1),
                   moveTo(graphTop + gh - 1, 1), Text(dot.colorCode)>>
            ELSE <<moveTo(graphTop + gh - 1, pos.col + 1), Text(dot.colorCode)>>
    IN paint \o renderLatestPing(so, dot.ping)

\* the loop of replayDotsForResize, i being 0-based
RECURSIVE replayLoop(_, _, _, _)
replayLoop(dots, gw, gh, i) ==
    IF i >= Len(dots) THEN <<>>
    ELSE LET dot == dots[i + 1]
             col == JSRem(i, gw)
             row == JSFloorDiv(i, gw)
             cell ==
                 IF row < gh
                 THEN <<moveTo(graphTop + row, col + 1), Text(dot.colorCode)>>
                 ELSE IF col = 0
                 THEN <<scrollUp(1), moveTo(graphTop + gh - 1, 1), Text(dot.colorCode)>>
                 ELSE <<moveTo(graphTop + gh - 1, col + 1), Text(dot.colorCode)>>
         IN cell \o replayLoop(dots, gw, gh, i + 1)

\* replayDotsForResize wrapping one column late
replayDotsForResize_WrapsLate(dots, gw, gh) == replayLoop(dots, gw + 1, gh, 0)

\* replayDotsForResize(dots)
replayDotsForResize(dots, gw, gh) == replayLoop(dots, gw, gh, 0)

\* redrawAfterResize() replaying into a grid one row short
redrawAfterResize_ShortGrid(d, gw, gh, so) ==
    IF ~isTTY(so) THEN <<>>
    ELSE <<clearScreen>> \o drawStaticHeader
            \o <<setScrollRegion(graphTop, graphTop + gh - 1)>>
            \o replayDotsForResize(getAllDots(d), gw, gh - 1)

\* redrawAfterResize()
redrawAfterResize(d, gw, gh, so) ==
    IF ~isTTY(so) THEN <<>>
    ELSE <<clearScreen>> \o drawStaticHeader
            \o <<setScrollRegion(graphTop, graphTop + gh - 1)>>
            \o replayDotsForResize(getAllDots(d), gw, gh)

\* currentStats: PingStats | null, not set yet
NoStats == [totalPings |-> -1]

----------------------------------------------------------------------------
(* JavaScript numbers: the finite doubles that are not negative *)

\* a natural number of any size: its digits in base 1024, lowest first, the highest
\* digit not 0
RECURSIVE BigOfInt(_)
BigOfInt(n) == IF n = 0 THEN <<>> ELSE <<n % 1024>> \o BigOfInt(n \div 1024)

RECURSIVE BigToInt(_)
BigToInt(a) == IF a = <<>> THEN 0 ELSE a[1] + 1024 * BigToInt(Tail(a))

\* the digits without the zeros above the highest digit
RECURSIVE BigTrim(_)
BigTrim(a) ==
    IF a # <<>> /\ a[Len(a)] = 0 THEN BigTrim(SubSeq(a, 1, Len(a) - 1)) ELSE a

\* a * k + carry, for k below 2^20
RECURSIVE BigTimesPlus(_, _, _)
BigTimesPlus(a, k, carry) ==
    IF a = <<>> THEN BigOfInt(carry)
    ELSE LET t == a[1] * k + carry
         IN <<t % 1024>> \o BigTimesPlus(Tail(a), k, t \div 1024)

BigTimes(a, k) == BigTrim(BigTimesPlus(a, k, 0))

\* a + b + carry
RECURSIVE BigPlusCarry(_, _, _)
BigPlusCarry(a, b, carry) ==
    IF a = <<>> /\ b = <<>> THEN BigOfInt(carry)
    ELSE LET t == (IF a = <<>> THEN 0 ELSE a[1]) + (IF b = <<>> THEN 0 ELSE b[1]) + carry
         IN <<t % 1024>> \o BigPlusCarry(IF a = <<>> THEN a ELSE Tail(a),
                                         IF b = <<>> THEN b ELSE Tail(b), t \div 1024)

BigPlus(a, b) == BigPlusCarry(a, b, 0)

\* a - b - borrow, for a >= b + borrow
RECURSIVE BigMinusBorrow(_, _, _)
BigMinusBorrow(a, b, borrow) ==
    IF a = <<>> THEN <<>>
    ELSE LET t == a[1] - (IF b = <<>> THEN 0 ELSE b[1]) - borrow
         IN <<t % 1024>> \o BigMinusBorrow(Tail(a), IF b = <<>> THEN b ELSE Tail(b),
                                           IF t < 0 THEN 1 ELSE 0)

BigMinus(a, b) == BigTrim(BigMinusBorrow(a, b, 0))

\* the quotient and the remainder of a by k, for k below 2^21, the high digits first
RECURSIVE BigOver(_, _)
BigOver(a, k) ==
    IF a = <<>> THEN [q |-> <<>>, r |-> 0]
    ELSE LET high == BigOver(Tail(a), k)
             t == high.r * 1024 + a[1]
         IN [q |-> <<t \div k>> \o high.q, r |-> t % k]

\* a * 2^d
BigShiftLeft(a, d) ==
    IF a = <<>> THEN a ELSE [i \in 1..(d \div 10) |-> 0] \o BigTimes(a, 2 ^ (d % 10))

\* a \div 2^d
BigShiftRight(a, d) ==
    IF d \div 10 >= Len(a) THEN <<>>
    ELSE BigTrim(BigOver(SubSeq(a, d \div 10 + 1, Len(a)), 2 ^ (d % 10)).q)

\* bit i of a, bit 0 the lowest
BigBit(a, i) ==
    IF i \div 10 >= Len(a) THEN 0 ELSE (a[i \div 10 + 1] \div (2 ^ (i % 10))) % 2

\* whether one of the d lowest bits of a is set
BigLowBits(a, d) ==
    \/ \E i \in 1..Len(a) : i <= d \div 10 /\ a[i] # 0
    \/ d \div 10 < Len(a) /\ a[d \div 10 + 1] % (2 ^ (d % 10)) # 0

\* the number of bits of n
RECURSIVE IntBitLength(_)
IntBitLength(n) == IF n = 0 THEN 0 ELSE 1 + IntBitLength(n \div 2)

\* the number of bits of a
BigBitLength(a) ==
    IF a = <<>> THEN 0 ELSE 10 * (Len(a) - 1) + IntBitLength(a[Len(a)])

\* the number of zero bits below the lowest set bit of a, a not 0
RECURSIVE BigTrailingZeros(_)
BigTrailingZeros(a) ==
    IF a[1] = 0 THEN 10 + BigTrailingZeros(Tail(a))
    ELSE IF a[1] % 2 = 0 THEN 1 + BigTrailingZeros(<<a[1] \div 2>>)
    ELSE 0

\* the number 0
Zero == [m |-> <<>>, e |-> 0]

\* the number m * 2^e, written with an odd m
Dyadic(m, e) ==
    IF m = <<>> THEN Zero
    ELSE [m |-> BigShiftRight(m, BigTrailingZeros(m)), e |-> e + BigTrailingZeros(m)]

\* the double nearest to a value v with m * 2^e <= v < (m + 1) * 2^e, where v is
\* m * 2^e unless inexact; m of 55 bits or more when inexact. Round to nearest, ties to
\* even, on a significand of 53 bits
RoundToDouble(m, e, inexact) ==
    LET drop == BigBitLength(m) - 53
    IN IF drop <= 0 THEN Dyadic(m, e)
       ELSE LET kept == BigShiftRight(m, drop)
                half == BigBit(m, drop - 1) = 1
                more == inexact \/ BigLowBits(m, drop - 1)
                odd == BigBit(m, drop) = 1
            IN Dyadic(IF half /\ (more \/ odd) THEN BigPlus(kept, <<1>>) ELSE kept,
                      e + drop)

\* the number of an integer n >= 0
NumberOf(n) == RoundToDouble(BigOfInt(n), 0, FALSE)

\* x + y
NumberPlus(x, y) ==
    IF x = Zero THEN y
    ELSE IF y = Zero THEN x
    ELSE LET e == Min2(x.e, y.e)
         IN RoundToDouble(BigPlus(BigShiftLeft(x.m, x.e - e), BigShiftLeft(y.m, y.e - e)),
                          e, FALSE)

\* x - y, for x >= y
NumberMinus(x, y) ==
    IF y = Zero THEN x
    ELSE LET e == Min2(x.e, y.e)
         IN RoundToDouble(BigMinus(BigShiftLeft(x.m, x.e - e), BigShiftLeft(y.m, y.e - e)),
                          e, FALSE)

\* x * k, for an integer 0 <= k < 2^20
NumberTimes(x, k) ==
    IF x = Zero THEN Zero ELSE RoundToDouble(BigTimes(x.m, k), x.e, FALSE)

\* x / k, for an integer 0 < k < 2^21
NumberOver(x, k) ==
    IF x = Zero THEN Zero
    ELSE LET division == BigOver(BigShiftLeft(x.m, 80), k)
         IN RoundToDouble(BigTrim(division.q), x.e - 80, division.r # 0)

\* x.toFixed(1) in tenths: the integer n with n / 10 nearest to x, the larger one of
\* two
NumberToFixed1(x) ==
    IF x.e >= 0 THEN BigToInt(BigShiftLeft(BigTimes(x.m, 10), x.e))
    ELSE BigToInt(BigShiftRight(BigPlus(BigTimes(x.m, 20), BigShiftLeft(<<1>>, -x.e)),
                                1 - x.e))

\* the number a latency of 1/Scale ms is in milliseconds
Milliseconds(latency) == NumberOver(NumberOf(latency), Scale)

\* reduce((a, b) => a + b, sum) over the latencies lo..hi: the latencies added to the
\* running sum one after the other, the sum of the lower half being the running sum
\* of the upper half
RECURSIVE Reduce(_)
Reduce(r) ==
    IF r.lo > r.hi THEN r.sum
    ELSE IF r.lo = r.hi THEN NumberPlus(r.sum, Milliseconds(r.latencies[r.lo]))
    ELSE LET mid == (r.lo + r.hi) \div 2
         IN Reduce([sum |-> Reduce([r EXCEPT !.hi = mid]), latencies |-> r.latencies,
                    lo |-> mid + 1, hi |-> r.hi])

\* latencies.reduce((a, b) => a + b, 0)
SumOfLatencies(latencies) ==
    Reduce([sum |-> Zero, latencies |-> latencies, lo |-> 1, hi |-> Len(latencies)])

\* stats.averageLatency: the sum of the latencies / their number, or 0
AverageLatency(avg) ==
    IF avg.terms = <<>> THEN Zero ELSE NumberOver(SumOfLatencies(avg.terms), avg.den)

\* stats.packetLoss: ((length - successful) / length) * 100, or 0
PacketLoss(loss) ==
    IF loss.num = 0 THEN Zero
    ELSE NumberTimes(NumberOver(NumberOf(loss.num), 100 * loss.den), 100)

\* x.toFixed(1) as the renderer prints it: tenths
ToFixed1Ratio(x) == <<"tenths", NumberToFixed1(x)>>

\* the line both updateStatsDisplay and renderStats build
StatsLine(stats) ==
    LET loss == stats.packetLoss
        avg == stats.averageLatency
        head == <<"Runtime", stats.elapsedTime, "Total", stats.totalPings,
                  "Success", ToFixed1Ratio(NumberMinus(NumberOf(100), PacketLoss(loss))),
                  "Loss", ToFixed1Ratio(PacketLoss(loss)),
                  "Avg", ToFixed1Ratio(AverageLatency(avg))>>
    IN IF avg.num > 0
       THEN head \o <<"Min", ToFixed1Ratio(Milliseconds(stats.minLatency)),
                      "Max", ToFixed1Ratio(Milliseconds(stats.maxLatency))>>
       ELSE head

\* updateStatsDisplay(stats)
updateStatsDisplay(so, stats) ==
    <<moveTo(getTerminalSize(so).height - 1, 1), clearLine, Text(StatsLine(stats))>>

\* renderStats()
renderStats(stats) ==
    IF stats = NoStats THEN <<>> ELSE consoleLog(StatsLine(stats))

\* the loop of renderPingBlocksFallback, i being 1-based: the string built
RECURSIVE blocksLoop(_, _, _, _)
blocksLoop(allDots, gw, i, currentCol) ==
    IF i > Len(allDots) THEN (IF currentCol > 0 THEN <<"\n">> ELSE <<>>)
    ELSE IF currentCol + 1 >= gw
    THEN allDots[i].colorCode \o <<"\n">> \o blocksLoop(allDots, gw, i + 1, 0)
    ELSE allDots[i].colorCode \o blocksLoop(allDots, gw, i + 1, currentCol + 1)

\* renderPingBlocksFallback()
renderPingBlocksFallback(d, gw) ==
    LET allDots == getAllDots(d)
    IN IF Len(allDots) = 0 THEN <<>> ELSE consoleLog(blocksLoop(allDots, gw, 1, 0))

\* renderFallbackUpdate()
renderFallbackUpdate(d, gw, so, stats) ==
    IF getWriteCount(d) = 0 THEN <<>>
    ELSE LET allDots == getAllDots(d)
         IN consoleClear(so) \o showStaticHeader \o renderPingBlocksFallback(d, gw)
               \o (IF Len(allDots) > 0
                   THEN renderLatestPing(so, allDots[Len(allDots)].ping) ELSE <<>>)
               \o renderStats(stats)

\* the farewell destroy() prints
Farewell == consoleLog(<<"\n", "Visual monitor ended.">>)

\* destroy()
destroy(ts, so) ==
    LET shown == IF isTTY(so)
                 THEN TerminalState(showCursor(ts.cursorHidden, so).flag,
                                    exitAltScreen(ts.inAltScreen, so).flag,
                                    ts.out \o showCursor(ts.cursorHidden, so).out
                                           \o exitAltScreen(ts.inAltScreen, so).out)
                 ELSE ts
    IN [shown EXCEPT !.out = shown.out \o Farewell]

----------------------------------------------------------------------------
(* The samples delivered *)

\* the n-th sample delivered: the latencies of the end-to-end scenario (in ms), then a
\* failure and a success without latency, repeated
SampleKind(n) ==
    CASE n % 7 = 1 -> [success |-> TRUE, latency |-> 10 * Scale, error |-> ""]
      [] n % 7 = 2 -> [success |-> TRUE, latency |-> 60 * Scale, error |-> ""]
      [] n % 7 = 3 -> [success |-> TRUE, latency |-> 150 * Scale, error |-> ""]
      [] n % 7 = 4 -> [success |-> TRUE, latency |-> 300 * Scale, error |-> ""]
      [] n % 7 = 5 -> [success |-> TRUE, latency |-> 600 * Scale, error |-> ""]
      [] n % 7 = 6 -> [success |-> FALSE, latency |-> Undefined, error |-> "Timeout"]
      [] n % 7 = 0 -> [success |-> TRUE, latency |-> Undefined, error |-> ""]

\* a PingResult: timestamp, success, latency?, error? (the host is fixed)
PingResult(timestamp, kind) ==
    [timestamp |-> timestamp, success |-> kind.success, latency |-> kind.latency,
     error |-> kind.error]

PingInputs(n) == {PingResult(n, SampleKind(n))}

----------------------------------------------------------------------------
(* DotHistory driven through its public methods *)

\* the state of the objects startPingMonitor creates, before it ran
NoMonitor ==
    /\ results = <<>>
    /\ config = [count |-> 0, interval |-> 0, sound |-> FALSE, frequencySound |-> FALSE,
                 platform |-> "linux"]
    /\ pingCount = 0
    /\ maxPings = 0
    /\ lastPingSuccess = "null"
    /\ consecutiveFailures = 0
    /\ alert = "none"
    /\ lastFailureTime = 0
    /\ now = Epoch
    /\ isRunning = FALSE
    /\ timers = [flight |-> NoTimer, doPing |-> NoTimer, shutdown |-> <<>>, bell |-> <<>>,
                 roundTrip |-> NoTimer]
    /\ proc = [status |-> "running", code |-> 0, by |-> "none"]

NoRenderer ==
    /\ stdout = [isTTY |-> FALSE, columns |-> 0, rows |-> 0]
    /\ graphWidth = 0
    /\ graphHeight = 0
    /\ isInitialized = FALSE
    /\ isFirstRender = TRUE
    /\ resizeHandler = FALSE
    /\ inAltScreen = FALSE
    /\ cursorHidden = FALSE
    /\ out = <<>>
    /\ currentStats = NoStats
    /\ emitted = <<>>
    /\ branch = "none"
    /\ returned = NoReturn
    /\ engine = NoEngine
    /\ call = NoCall
    /\ screen = NoScreen
    /\ NoMonitor

InitHistoryOver(widths, heights) ==
    /\ \E w \in widths, h \in heights :
          /\ dh = NewDotHistory(w, h).obj
          /\ thrown = NewDotHistory(w, h).thrown
    /\ clock = 0
    /\ appended = <<>>
    /\ posLog = <<>>
    /\ origin = "fresh"
    /\ lastOp = "new"
    /\ prevDots = <<>>
    /\ NoRenderer

\* a constructor that threw leaves no object to call
Alive == ~(lastOp = "new" /\ thrown # "none")

AddPingFrom(limit, pings) ==
    /\ Alive
    /\ clock < limit
    /\ \E ping \in pings :
          /\ dh' = addPing(dh, ping)
          /\ appended' = Append(appended, ping)
    /\ posLog' = IF origin = "resized" THEN <<>> ELSE Append(posLog, getCurrentPosition(dh'))
    /\ clock' = clock + 1
    /\ thrown' = "none"
    /\ lastOp' = "addPing"
    /\ prevDots' = <<>>
    /\ UNCHANGED <<ovars, evars, origin, rvars, mvars, pvars>>

ResizeOver(widths, heights) ==
    /\ Alive
    /\ \E w \in widths, h \in heights :
          /\ dh' = resize(dh, w, h).obj
          /\ thrown' = resize(dh, w, h).thrown
    /\ origin' = "resized"
    /\ posLog' = <<>>
    /\ lastOp' = "resize"
    /\ prevDots' = getAllDots(dh)
    /\ UNCHANGED <<ovars, evars, clock, appended, rvars, mvars, pvars>>

Clear ==
    /\ Alive
    /\ dh' = clear(dh).obj
    /\ thrown' = clear(dh).thrown
    /\ IF thrown' = "none"
       THEN /\ appended' = <<>>
            /\ posLog' = <<>>
            /\ origin' = "cleared"
       ELSE UNCHANGED <<appended, posLog, origin>>
    /\ lastOp' = "clear"
    /\ prevDots' = <<>>
    /\ UNCHANGED <<ovars, evars, clock, rvars, mvars, pvars>>

ValidWidths == 1..MaxWidth

ValidHeights == 1..MaxHeight

InitHistory == InitHistoryOver(ValidWidths, ValidHeights)

AddPing == AddPingFrom(MaxPings, PingInputs(clock + 1))

Resize == ResizeOver(ValidWidths, ValidHeights)

NextHistory == AddPing \/ Resize \/ Clear

SpecHistory == InitHistory /\ [][NextHistory]_vars

(* DotHistory given any dimensions: nothing validates them *)

LooseWidths == (-BelowOne)..MaxWidth

LooseHeights == (-BelowOne)..MaxHeight

InitLoose == InitHistoryOver(LooseWidths, LooseHeights)

AddPingLoose == AddPingFrom(MaxLoosePings, PingInputs(clock + 1))

ResizeLoose == ResizeOver(LooseWidths, LooseHeights)

NextLoose == AddPingLoose \/ ResizeLoose \/ Clear

SpecLoose == InitLoose /\ [][NextLoose]_vars

(* addPing on one sample of every success flag and latency *)

\* the latencies, in 1/Scale ms
Latencies == 0..(MaxLatency * Scale)

AllPingResults(n) ==
    {PingResult(n, [success |-> s, latency |-> l, error |-> ""]) :
        s \in BOOLEAN, l \in Latencies \cup {Undefined}}

InitClassify == InitHistoryOver({1}, {1})

AddAnyPing == AddPingFrom(1, AllPingResults(clock + 1))

NextClassify == AddAnyPing

SpecClassify == InitClassify /\ [][NextClassify]_vars

----------------------------------------------------------------------------
(* The renderer on its terminal *)

\* the sizes a terminal reports; a stream that is no terminal reports none
TtyColumns == 1..MaxWidth

TtyRows == ReservedRows..(ReservedRows + MaxHeight)

\* the alternate-screen and cursor sequences among what was written
ControlSequences(written) ==
    LET IsControl(w) == w.seq \in {"enterAltScreen", "exitAltScreen", "hideCursor", "showCursor"}
    IN SelectSeq(written, IsControl)

\* constructor(host, interval, timeout), process.stdout being a terminal of one of the
\* given sizes or no terminal
ConstructRenderer(ttys, columns, rows) ==
    /\ \E tty \in ttys :
          \E c \in (IF tty THEN columns ELSE {0}), r \in (IF tty THEN rows ELSE {0}) :
             stdout = [isTTY |-> tty, columns |-> c, rows |-> r]
    /\ graphWidth = getTerminalSize(stdout).width
    /\ graphHeight = GraphHeightFor(getTerminalSize(stdout).height)
    /\ dh = NewDotHistory(graphWidth, graphHeight).obj
    /\ thrown = NewDotHistory(graphWidth, graphHeight).thrown
    /\ IF isTTY(stdout)
       THEN \* setupCleanExit(); initializeDisplay(); setupResizeHandler()
            /\ inAltScreen = enterAltScreen(FALSE, stdout).flag
            /\ cursorHidden = hideCursor(FALSE, stdout).flag
            /\ isInitialized = TRUE
            /\ out = enterAltScreen(FALSE, stdout).out \o hideCursor(FALSE, stdout).out
                        \o drawStaticHeader
            /\ resizeHandler = TRUE
            /\ branch = "interactive"
       ELSE \* initializeFallbackDisplay()
            /\ inAltScreen = FALSE
            /\ cursorHidden = FALSE
            /\ isInitialized = FALSE
            /\ out = consoleClear(stdout) \o showStaticHeader
            /\ resizeHandler = FALSE
            /\ branch = "fallback"
    /\ isFirstRender = FALSE
    /\ currentStats = NoStats
    /\ emitted = ControlSequences(out)
    /\ returned = NoReturn
    /\ engine = NoEngine
    /\ call = NoCall
    /\ clock = 0
    /\ appended = <<>>
    /\ posLog = <<>>
    /\ origin = "fresh"
    /\ lastOp = "new"
    /\ prevDots = <<>>

\* a renderer constructed on its own, no monitor around it
NewRenderer(ttys, columns, rows) ==
    ConstructRenderer(ttys, columns, rows) /\ screen = NoScreen /\ NoMonitor

Init == NewRenderer(BOOLEAN, TtyColumns, TtyRows)

\* addPingResult(result), while fewer than limit samples were delivered
AddPingResultUpTo(limit) ==
    /\ clock < limit
    /\ \E ping \in PingInputs(clock + 1) :
          /\ dh' = addPing(dh, ping)
          /\ appended' = Append(appended, ping)
          /\ out' = IF isTTY(stdout)
                    THEN renderIncrementalUpdate(dh', graphWidth, graphHeight, stdout,
                                                 MakeDot(ping))
                    ELSE <<>>
    /\ branch' = IF isTTY(stdout) THEN "interactive" ELSE "fallback"
    /\ posLog' = IF origin = "resized" THEN <<>> ELSE Append(posLog, getCurrentPosition(dh'))
    /\ clock' = clock + 1
    /\ thrown' = "none"
    /\ lastOp' = "addPingResult"
    /\ prevDots' = <<>>
    /\ screen' = Display(screen, out', stdout)
    /\ UNCHANGED <<returned, evars, origin, stdout, graphWidth, graphHeight, isInitialized,
                   isFirstRender, resizeHandler, inAltScreen, cursorHidden, currentStats,
                   emitted, pvars>>

AddPingResult == AddPingResultUpTo(MaxPings)

\* the terminal takes one of the given sizes and process.stdout emits 'resize': the
\* listener of setupResizeHandler runs
OnResizeTo(columns, rows) ==
    /\ resizeHandler
    /\ \E c \in columns, r \in rows :
          /\ <<c, r>> # <<stdout.columns, stdout.rows>>
          /\ stdout' = [stdout EXCEPT !.columns = c, !.rows = r]
    /\ LET width == getTerminalSize(stdout').width
           newGraphHeight == GraphHeightFor(getTerminalSize(stdout').height)
       IN IF width # graphWidth \/ newGraphHeight # graphHeight
          THEN /\ graphWidth' = width
               /\ graphHeight' = newGraphHeight
               /\ dh' = resize(dh, width, newGraphHeight).obj
               /\ thrown' = resize(dh, width, newGraphHeight).thrown
               /\ out' = redrawAfterResize(dh', width, newGraphHeight, stdout')
               /\ origin' = "resized"
               /\ posLog' = <<>>
               /\ lastOp' = "resize"
               /\ prevDots' = getAllDots(dh)
          ELSE /\ out' = <<>>
               /\ lastOp' = "resizeSameGrid"
               /\ prevDots' = <<>>
               /\ UNCHANGED <<graphWidth, graphHeight, dh, thrown, origin, posLog>>
    /\ screen' = Display(Resized(screen, getTerminalSize(stdout), getTerminalSize(stdout')),
                         out', stdout')
    /\ UNCHANGED <<returned, evars, clock, appended, isInitialized, isFirstRender,
                   resizeHandler, inAltScreen, cursorHidden, mvars, pvars>>

OnResize == OnResizeTo(TtyColumns, TtyRows)

\* clearScreen()
ClearScreen ==
    /\ IF isTTY(stdout)
       THEN /\ dh' = clear(dh).obj
            /\ thrown' = clear(dh).thrown
            /\ IF thrown' = "none"
               THEN /\ out' = redrawAfterResize(dh', graphWidth, graphHeight, stdout)
                    /\ appended' = <<>>
                    /\ posLog' = <<>>
                    /\ origin' = "cleared"
               ELSE /\ out' = <<>>
                    /\ UNCHANGED <<appended, posLog, origin>>
            /\ branch' = "interactive"
       ELSE \* console.clear(); initializeFallbackDisplay()
            /\ out' = consoleClear(stdout) \o consoleClear(stdout) \o showStaticHeader
            /\ branch' = "fallback"
            /\ thrown' = "none"
            /\ UNCHANGED <<dh, appended, posLog, origin>>
    /\ isFirstRender' = FALSE
    /\ lastOp' = "clearScreen"
    /\ prevDots' = <<>>
    /\ screen' = Display(screen, out', stdout)
    /\ UNCHANGED <<returned, evars, clock, stdout, graphWidth, graphHeight, isInitialized,
                   resizeHandler, inAltScreen, cursorHidden, currentStats, emitted, pvars>>

Next == AddPingResult \/ OnResize \/ ClearScreen

Spec == Init /\ [][Next]_vars

(* The renderer called in any order, on a stream whose isTTY may come to read differently *)

\* the width of the terminal of a session
SessionWidth == 2
\* number of samples delivered in a session
MaxSessionPings == 3

\* the samples delivered up to the n-th
Samples(n) == [i \in 1..n |-> PingResult(i, SampleKind(i))]

InitSession == NewRenderer(BOOLEAN, {SessionWidth}, {ReservedRows + 1})

AddPingResultInSession == AddPingResultUpTo(MaxSessionPings)

\* the times at which the statistics given to the renderer are calculated: at once, and
\* after more than a minute and more than an hour
StatsTimes == {startTime, startTime + 61 * 1000, startTime + 3661 * 1000}

\* updateStats(stats), the statistics being those of the samples delivered so far
UpdateStats ==
    /\ \E currentTime \in StatsTimes :
          currentStats' = calculateStats(Samples(clock), currentTime)
    /\ IF isTTY(stdout)
       THEN /\ out' = updateStatsDisplay(stdout, currentStats')
            /\ branch' = "interactive"
       ELSE /\ out' = renderFallbackUpdate(dh, graphWidth, stdout, currentStats')
            /\ branch' = "fallback"
    /\ lastOp' = "updateStats"
    /\ prevDots' = <<>>
    /\ screen' = Display(screen, out', stdout)
    /\ UNCHANGED <<returned, evars, dh, thrown, clock, appended, posLog, origin, stdout,
                   graphWidth, graphHeight, isInitialized, isFirstRender, resizeHandler,
                   inAltScreen, cursorHidden, emitted, pvars>>

\* destroy()
Destroy ==
    /\ LET done == destroy(TerminalState(cursorHidden, inAltScreen, <<>>), stdout)
       IN /\ cursorHidden' = done.cursorHidden
          /\ inAltScreen' = done.inAltScreen
          /\ out' = done.out
    /\ branch' = IF isTTY(stdout) THEN "interactive" ELSE "fallback"
    /\ emitted' = emitted \o ControlSequences(out')
    /\ lastOp' = "destroy"
    /\ prevDots' = <<>>
    /\ screen' = Display(screen, out', stdout)
    /\ UNCHANGED <<returned, evars, dh, thrown, clock, appended, posLog, origin, stdout,
                   graphWidth, graphHeight, isInitialized, isFirstRender, resizeHandler,
                   currentStats, pvars>>

\* process.stdout.isTTY comes to read differently
TtyChange ==
    /\ stdout' = [stdout EXCEPT !.isTTY = ~stdout.isTTY]
    /\ out' = <<>>
    /\ lastOp' = "ttyChange"
    /\ prevDots' = <<>>
    /\ UNCHANGED <<ovars, evars, dh, thrown, clock, appended, posLog, origin, graphWidth,
                   graphHeight, isInitialized, isFirstRender, resizeHandler, inAltScreen,
                   cursorHidden, mvars, pvars>>

NextSession == AddPingResultInSession \/ UpdateStats \/ ClearScreen \/ Destroy \/ TtyChange

SpecSession == InitSession /\ [][NextSession]_vars

(* The renderer on a terminal tall enough for a grid, its screen watched *)

\* largest width and height of the grid on the screen watched
MaxScreenWidth == 2
MaxScreenHeight == 2
\* number of samples delivered to the screen watched
MaxScreenPings == 5

\* the least width neither the title nor the target line wraps at (the legend is
\* shorter)
WideColumns == Max2(Len(TitleText), Len(TargetText))

\* the widths of the screen watched: the narrow ones, where the grid overflows after a
\* few samples, and a wide one
ScreenColumns == (1..MaxScreenWidth) \cup {WideColumns}

\* the row counts from 9 on: the reserved rows and a grid row or more
TallRows == (ReservedRows + 1)..(ReservedRows + MaxScreenHeight)

InitScreen ==
    /\ ConstructRenderer({TRUE}, ScreenColumns, TallRows)
    /\ screen = Display(BlankScreen, out, stdout)
    /\ NoMonitor

AddPingResultOnScreen == AddPingResultUpTo(MaxScreenPings)

OnResizeOnScreen == OnResizeTo(ScreenColumns, TallRows)

NextScreen == AddPingResultOnScreen \/ OnResizeOnScreen \/ ClearScreen

SpecScreen == InitScreen /\ [][NextScreen]_vars

(* The renderer on a terminal that reports any size, or none *)

\* number of samples delivered while the sizes change
MaxSizePings == 3

\* the column and row counts a terminal reports, 0 when it reports none
ReportedColumns == {0} \cup TtyColumns

ReportedRows == 0..(ReservedRows + MaxHeight)

InitSizes == NewRenderer(BOOLEAN, ReportedColumns, ReportedRows)

AddPingResultAtSize == AddPingResultUpTo(MaxSizePings)

OnResizeToAnySize == OnResizeTo(ReportedColumns, ReportedRows)

NextSizes == AddPingResultAtSize \/ OnResizeToAnySize

SpecSizes == InitSizes /\ [][NextSizes]_vars

(* TerminalControl called in any order *)

\* number of alternate-screen and cursor sequences written in one behaviour
MaxSequences == 6

InitTerminal ==
    /\ \E tty \in BOOLEAN : stdout = [isTTY |-> tty, columns |-> 0, rows |-> 0]
    /\ dh = NewDotHistory(1, 1).obj
    /\ thrown = "none"
    /\ clock = 0
    /\ appended = <<>>
    /\ posLog = <<>>
    /\ origin = "fresh"
    /\ lastOp = "none"
    /\ prevDots = <<>>
    /\ graphWidth = 0
    /\ graphHeight = 0
    /\ isInitialized = FALSE
    /\ isFirstRender = TRUE
    /\ resizeHandler = FALSE
    /\ inAltScreen = FALSE
    /\ cursorHidden = FALSE
    /\ out = <<>>
    /\ currentStats = NoStats
    /\ emitted = <<>>
    /\ branch = "none"
    /\ returned = NoReturn
    /\ engine = NoEngine
    /\ call = NoCall
    /\ screen = NoScreen
    /\ NoMonitor

\* what a call of TerminalControl leaves alone
TerminalCallFrame ==
    /\ Len(emitted) < MaxSequences
    /\ emitted' = emitted \o out'
    /\ screen' = Display(screen, out', stdout)
    /\ UNCHANGED <<returned, evars, dh, thrown, clock, appended, posLog, origin, prevDots,
                   stdout, graphWidth, graphHeight, isInitialized, isFirstRender, resizeHandler,
                   currentStats, branch, pvars>>

\* TerminalControl.enterAltScreen()
EnterAltScreen ==
    /\ inAltScreen' = enterAltScreen(inAltScreen, stdout).flag
    /\ out' = enterAltScreen(inAltScreen, stdout).out
    /\ lastOp' = "enterAltScreen"
    /\ UNCHANGED cursorHidden
    /\ TerminalCallFrame

\* TerminalControl.exitAltScreen()
ExitAltScreen ==
    /\ inAltScreen' = exitAltScreen(inAltScreen, stdout).flag
    /\ out' = exitAltScreen(inAltScreen, stdout).out
    /\ lastOp' = "exitAltScreen"
    /\ UNCHANGED cursorHidden
    /\ TerminalCallFrame

\* TerminalControl.hideCursor()
HideCursor ==
    /\ cursorHidden' = hideCursor(cursorHidden, stdout).flag
    /\ out' = hideCursor(cursorHidden, stdout).out
    /\ lastOp' = "hideCursor"
    /\ UNCHANGED inAltScreen
    /\ TerminalCallFrame

\* TerminalControl.showCursor()
ShowCursor ==
    /\ cursorHidden' = showCursor(cursorHidden, stdout).flag
    /\ out' = showCursor(cursorHidden, stdout).out
    /\ lastOp' = "showCursor"
    /\ UNCHANGED inAltScreen
    /\ TerminalCallFrame

NextTerminal == EnterAltScreen \/ ExitAltScreen \/ HideCursor \/ ShowCursor

SpecTerminal == InitTerminal /\ [][NextTerminal]_vars

(* DataManager given one result after the other *)

\* number of results saved in one behaviour
MaxSaved == 1001
\* number of results saved after a clearHistory()
MaxResaved == 3

InitData ==
    /\ dh = NewDotHistory(1, 1).obj
    /\ thrown = "none"
    /\ clock = 0
    /\ appended = <<>>
    /\ posLog = <<>>
    /\ origin = "fresh"
    /\ lastOp = "none"
    /\ prevDots = <<>>
    /\ NoRenderer

\* saveResult(result)
SaveResult ==
    /\ clock < MaxSaved
    /\ Len(appended) = clock \/ Len(appended) < MaxResaved
    /\ \E result \in PingInputs(clock + 1) :
          /\ results' = saveResult(results, result)
          /\ appended' = Append(appended, result)
    /\ clock' = clock + 1
    /\ lastOp' = "saveResult"
    /\ UNCHANGED <<ovars, evars, dh, thrown, posLog, origin, prevDots, rvars, mvars, config,
                   pingCount, maxPings, lastPingSuccess, consecutiveFailures, alert,
                   lastFailureTime, now, isRunning, timers, proc>>

\* clearHistory()
ClearHistory ==
    /\ results' = clearHistory
    /\ appended' = <<>>
    /\ lastOp' = "clearHistory"
    /\ UNCHANGED <<ovars, evars, dh, thrown, clock, posLog, origin, prevDots, rvars, mvars,
                   config, pingCount, maxPings, lastPingSuccess, consecutiveFailures, alert,
                   lastFailureTime, now, isRunning, timers, proc>>

\* a caller takes getResults() and empties the array it was given (length = 0): the
\* stored results follow when the array is the stored one
GetResults ==
    /\ LET got == getResultsCall(results)
       IN /\ results' = IF got.shared THEN Emptied.dots ELSE results
          /\ returned' = Emptied
    /\ lastOp' = "getResults"
    /\ UNCHANGED <<screen, evars, dh, thrown, clock, appended, posLog, origin, prevDots, rvars,
                   mvars, config, pingCount, maxPings, lastPingSuccess, consecutiveFailures,
                   alert, lastFailureTime, now, isRunning, timers, proc>>

NextData == SaveResult \/ GetResults \/ ClearHistory

SpecData == InitData /\ [][NextData]_vars

(* PingEngine: startContinuousPing and stopPing called in any order, between the pings
   resolving and the doPing timers firing *)

EngineFrame ==
    UNCHANGED <<ovars, call, dh, thrown, clock, appended, posLog, origin, prevDots, rvars, mvars,
                results, config, pingCount, maxPings, lastPingSuccess, consecutiveFailures,
                alert, lastFailureTime, now, timers, proc>>

InitEngine == InitData

\* startContinuousPing()
StartContinuousPing ==
    /\ isRunning \/ engine.made < MaxHandles
    /\ LET started == startContinuousPing(engine, isRunning)
       IN /\ engine' = [started.engine EXCEPT !.window = NoWindow]
          /\ isRunning' = started.isRunning
    /\ lastOp' = "startContinuousPing"
    /\ EngineFrame

\* stopPing()
StopPing ==
    /\ LET stopped == stopPing(engine)
       IN /\ engine' = [stopped.engine EXCEPT
                           !.window = [atStop |-> engine.flights, results |-> <<>>,
                                       spawned |-> {}]]
          /\ isRunning' = stopped.isRunning
    /\ lastOp' = "stopPing"
    /\ EngineFrame

\* a ping in flight resolves: the doPing that awaits it emits 'result' and goes on
PingSettles ==
    /\ \E ping \in engine.flights :
          /\ isRunning => engine.made < MaxHandles
          /\ engine' = [doPingResumed(engine, isRunning, ping) EXCEPT
                          !.window = IF isRunning THEN @
                                     ELSE [@ EXCEPT !.results = Append(@, ping)]]
    /\ lastOp' = "pingSettled"
    /\ UNCHANGED isRunning
    /\ EngineFrame

\* a doPing timer fires: doPing runs up to its await
DoPingFires ==
    /\ \E timer \in engine.pending :
          /\ isRunning => engine.made < MaxHandles
          /\ LET fired == [engine EXCEPT !.pending = @ \ {timer}]
                 again == doPing(fired, isRunning)
             IN engine' = [again EXCEPT
                             !.window = IF isRunning THEN @
                                        ELSE [@ EXCEPT !.spawned =
                                                          @ \cup (again.flights \ engine.flights)]]
    /\ lastOp' = "doPingFired"
    /\ UNCHANGED isRunning
    /\ EngineFrame

NextEngine == StartContinuousPing \/ StopPing \/ PingSettles \/ DoPingFires

SpecEngine == InitEngine /\ [][NextEngine]_vars

(* PingEngine.ping(): the callbacks of one call, run by the event loop in any order *)

CallFrame ==
    UNCHANGED <<ovars, engine, dh, thrown, appended, posLog, origin, prevDots, rvars, mvars,
                pvars>>

\* the exit codes of a subprocess that ended by itself
ExitCodes == {0, 1, 2}

\* what parseLatency(output) gives: a latency of each class, undefined when the output
\* holds no time
ParsedLatencies == {Undefined} \cup {SampleKind(k).latency : k \in 1..5}

\* what the subprocess wrote to stderr
ErrorOutputs == {"", "ping: unknown host"}

\* the messages of the errors a subprocess emits by itself: it could not be spawned
ErrorMessages == {"spawn ping ENOENT", "spawn ping EACCES"}

InitPing == InitData

\* doPing calls ping(): the first call, or the next one once the result of the call
\* before was emitted. What the subprocess of the call before still emits reaches only
\* the listeners of that call, whose promise is settled
PingCalled ==
    /\ call = NoCall \/ call.promise.state = "fulfilled"
    /\ clock < MaxCalls
    /\ call' = NewCall(clock + 1)
    /\ clock' = clock + 1
    /\ lastOp' = "ping"
    /\ CallFrame

\* the timeout timer fires: its callback runs whole, the 'error' that kill() emits
\* when the signal is refused included
TimeoutFires ==
    /\ call.timeoutId = "pending"
    /\ \E outcome \in KillOutcomes :
          LET after == onTimeout(call, outcome)
          IN call' = [after EXCEPT !.first = IF call.first = "none" THEN "timeout" ELSE @,
                                   !.emitted = doPingAwait(call, after)]
    /\ lastOp' = "timeout"
    /\ UNCHANGED clock
    /\ CallFrame

\* the subprocess emits 'close': with an exit code when it ended by itself, with null
\* when the kill() of the timeout callback ended it
ChildClose ==
    /\ call.promise.state \in {"pending", "fulfilled"}
    /\ ~call.closed
    /\ \E code \in ExitCodes \cup {NullCode}, latency \in ParsedLatencies,
          errorOutput \in ErrorOutputs :
          /\ code = NullCode => call.killed
          /\ code = 0 => errorOutput = ""
          /\ code # 0 => latency = Undefined
          /\ LET after == onClose(call, code, latency, errorOutput)
             IN call' = [after EXCEPT
                           !.first = IF call.first # "none" THEN @
                                     ELSE IF code = 0 THEN "close0" ELSE "closeN",
                           !.emitted = doPingAwait(call, after)]
    /\ lastOp' = "close"
    /\ UNCHANGED clock
    /\ CallFrame

\* the subprocess emits 'error' by itself: it could not be spawned
ChildError ==
    /\ call.promise.state \in {"pending", "fulfilled"}
    /\ ~call.errored
    /\ \E message \in ErrorMessages :
          LET after == onError(call, message)
          IN call' = [after EXCEPT !.first = IF call.first = "none" THEN "error" ELSE @,
                                   !.emitted = doPingAwait(call, after)]
    /\ lastOp' = "error"
    /\ UNCHANGED clock
    /\ CallFrame

NextPing == PingCalled \/ TimeoutFires \/ ChildClose \/ ChildError

SpecPing == InitPing /\ [][NextPing]_vars

(* startPingMonitor with the visual interface: the listeners it registers, run by the event loop *)

\* largest count given to the monitor
MaxCount == 2
\* number of results handled in one behaviour
MaxMonitorPings == 3
\* the time a ping takes to a fast and to a slow host, in ms
FastPing == 20
SlowPing == 120
\* how far above the least interval the intervals go, in ms
IntervalSlack == 50

\* cli.ts: the least interval accepted, in ms
MinInterval == 100

\* the delay of setTimeout(shutdown, 100) with a longer delay
ShutdownDelay_Long == 3 * 100

\* setTimeout(shutdown, 100)
ShutdownDelay == 100

Intervals == {MinInterval, MinInterval + IntervalSlack}

\* the time the host takes to answer, the same for every ping of a run
PingDurations == {FastPing, SlowPing}

\* the results a ping resolves to: a success of 10 ms, a failure, and a success whose
\* output parseLatency could not read (exit code 0, latency undefined)
MonitorInputs(n) ==
    {PingResult(n, SampleKind(1)), PingResult(n, SampleKind(6)), PingResult(n, SampleKind(7))}

\* --sound / --no-sound and --frequency-sound, with process.platform: playTone alone
\* reads the platform, and it runs only when both sounds are on
SoundSettings ==
    {sounds \in [sound : BOOLEAN, frequencySound : BOOLEAN, platform : Platforms] :
        sounds.platform = "linux" \/ (sounds.sound /\ sounds.frequencySound)}

\* maxPings > 0 && pingCount >= maxPings
CountReached(max, count) == max > 0 /\ count >= max

\* the visual branch of the 'result' listener leaving the statistics as they were
updateVisual_StatsDeferred(d, gw, gh, so, result, data, stats, currentTime) ==
    [dh |-> addPing(d, result),
     currentStats |-> stats,
     out |-> IF isTTY(so)
             THEN renderIncrementalUpdate(addPing(d, result), gw, gh, so, MakeDot(result))
             ELSE <<>>]

\* the visual branch of the 'result' listener: addPingResult(result);
\* updateStats(dataManager.calculateStats())
updateVisual(d, gw, gh, so, result, data, stats, currentTime) ==
    LET appendedTo == addPing(d, result)
        newStats == calculateStats(data, currentTime)
    IN [dh |-> appendedTo,
        currentStats |-> newStats,
        out |-> IF isTTY(so)
                THEN renderIncrementalUpdate(appendedTo, gw, gh, so, MakeDot(result))
                        \o updateStatsDisplay(so, newStats)
                ELSE renderFallbackUpdate(appendedTo, gw, so, newStats)]

\* the times left of everything pending
Pending(t) ==
    ({t.flight, t.doPing} \ {NoTimer}) \cup {t.shutdown[i] : i \in 1..Len(t.shutdown)}
       \cup {t.bell[i] : i \in 1..Len(t.bell)}

\* nothing pending is due before the given time left
IsDue(t, left) == left # NoTimer /\ \A other \in Pending(t) : left <= other

\* the times left once the given time has passed
Age(t, elapsed) ==
    [flight |-> IF t.flight = NoTimer THEN NoTimer ELSE t.flight - elapsed,
     doPing |-> IF t.doPing = NoTimer THEN NoTimer ELSE t.doPing - elapsed,
     shutdown |-> [i \in 1..Len(t.shutdown) |-> t.shutdown[i] - elapsed],
     bell |-> [i \in 1..Len(t.bell) |-> t.bell[i] - elapsed],
     roundTrip |-> t.roundTrip]

InitMonitor ==
    /\ ConstructRenderer(BOOLEAN, {SessionWidth}, {ReservedRows + 1})
    /\ screen = NoScreen
    /\ \E count \in 0..MaxCount, interval \in Intervals, sounds \in SoundSettings :
          config = [count |-> count, interval |-> interval, sound |-> sounds.sound,
                    frequencySound |-> sounds.frequencySound,
                    platform |-> sounds.platform]
    /\ results = <<>>
    /\ pingCount = 0
    /\ maxPings = config.count
    /\ lastPingSuccess = "null"
    /\ consecutiveFailures = 0
    /\ alert = "none"
    /\ lastFailureTime = 0
    /\ now = Epoch
    \* startContinuousPing(): isRunning = true; doPing() spawns the first ping
    /\ isRunning = TRUE
    /\ \E d \in PingDurations :
          timers = [flight |-> d, doPing |-> NoTimer, shutdown |-> <<>>, bell |-> <<>>,
                    roundTrip |-> d]
    /\ proc = [status |-> "running", code |-> 0, by |-> "none"]

\* the ping in flight resolves: doPing emits 'result', the listener of startPingMonitor
\* runs (saveResult, processResult, the alert, addPingResult, updateStats, the shutdown
\* timer), then doPing sets the timer of the next ping
ResultArrives ==
    /\ proc.status = "running"
    /\ IsDue(timers, timers.flight)
    /\ pingCount < MaxMonitorPings
    /\ now' = now + timers.flight
    /\ pingCount' = pingCount + 1
    /\ \E result \in MonitorInputs(clock + 1) :
          LET sound == processResult(lastPingSuccess, consecutiveFailures, result)
              played == playAlert(config, lastFailureTime, now', result, sound.wasRecovery)
              visual == updateVisual(dh, graphWidth, graphHeight, stdout, result,
                                     saveResult(results, result), currentStats, now')
              aged == Age(timers, timers.flight)
          IN /\ results' = saveResult(results, result)
             /\ lastPingSuccess' = sound.lastPingSuccess
             /\ consecutiveFailures' = sound.consecutiveFailures
             /\ alert' = IF ~result.success THEN "failure"
                         ELSE IF sound.wasRecovery THEN "recovery"
                         ELSE IF config.frequencySound THEN "latency"
                         ELSE "none"
             /\ lastFailureTime' = played.lastFailureTime
             /\ dh' = visual.dh
             /\ currentStats' = visual.currentStats
             /\ out' = played.out \o visual.out
             /\ appended' = Append(appended, result)
             /\ timers' = [flight |-> NoTimer,
                           doPing |-> IF isRunning THEN config.interval ELSE NoTimer,
                           shutdown |-> IF CountReached(maxPings, pingCount')
                                        THEN Append(aged.shutdown, ShutdownDelay)
                                        ELSE aged.shutdown,
                           bell |-> aged.bell \o played.timer,
                           roundTrip |-> timers.roundTrip]
    /\ branch' = IF isTTY(stdout) THEN "interactive" ELSE "fallback"
    /\ posLog' = IF origin = "resized" THEN <<>> ELSE Append(posLog, getCurrentPosition(dh'))
    /\ clock' = clock + 1
    /\ thrown' = "none"
    /\ lastOp' = "result"
    /\ prevDots' = <<>>
    /\ screen' = Display(screen, out', stdout)
    /\ UNCHANGED <<returned, evars, origin, stdout, graphWidth, graphHeight, isInitialized,
                   isFirstRender, resizeHandler, inAltScreen, cursorHidden, emitted, config,
                   maxPings, isRunning, proc>>

\* the timer of playRecoveryAlert fires: the second bell is written
BellTimer ==
    /\ proc.status = "running"
    /\ Len(timers.bell) > 0
    /\ IsDue(timers, timers.bell[1])
    /\ timers' = [Age(timers, timers.bell[1]) EXCEPT !.bell = Tail(@)]
    /\ now' = now + timers.bell[1]
    /\ out' = Bell
    /\ lastOp' = "bell"
    /\ prevDots' = <<>>
    /\ screen' = Display(screen, out', stdout)
    /\ UNCHANGED <<returned, evars, dh, thrown, clock, appended, posLog, origin, stdout,
                   graphWidth, graphHeight, isInitialized, isFirstRender, resizeHandler,
                   inAltScreen, cursorHidden, mvars, results, config, pingCount, maxPings,
                   lastPingSuccess, consecutiveFailures, alert, lastFailureTime, isRunning,
                   proc>>

\* the timer of doPing fires: the next ping is spawned. Timers of one delay fire in the
\* order they were set, and the listener sets the timer of the second bell and the
\* shutdown timer before doPing sets its own
DoPing ==
    /\ proc.status = "running"
    /\ IsDue(timers, timers.doPing)
    /\ ~(config.interval = ShutdownDelay
            /\ \E i \in 1..Len(timers.shutdown) : timers.shutdown[i] = timers.doPing)
    /\ ~(config.interval = BellDelay
            /\ \E i \in 1..Len(timers.bell) : timers.bell[i] = timers.doPing)
    /\ now' = now + timers.doPing
    /\ timers' = [Age(timers, timers.doPing) EXCEPT
                     !.doPing = NoTimer,
                     !.flight = IF isRunning THEN timers.roundTrip ELSE NoTimer]
    /\ out' = <<>>
    /\ lastOp' = "doPing"
    /\ prevDots' = <<>>
    /\ UNCHANGED <<ovars, evars, dh, thrown, clock, appended, posLog, origin, stdout,
                   graphWidth, graphHeight, isInitialized, isFirstRender, resizeHandler,
                   inAltScreen, cursorHidden, mvars, results, config, pingCount, maxPings,
                   lastPingSuccess, consecutiveFailures, alert, lastFailureTime, isRunning,
                   proc>>

\* the process ends with the given flags and output, by the given way and exit code,
\* the given time after the last step; stopped when pingEngine.stopPing() ran before
Terminate(ts, code, by, stopped, elapsed) ==
    /\ proc.status = "running"
    /\ now' = now + elapsed
    /\ cursorHidden' = ts.cursorHidden
    /\ inAltScreen' = ts.inAltScreen
    /\ out' = ts.out
    /\ emitted' = emitted \o ControlSequences(ts.out)
    /\ proc' = [status |-> "exited", code |-> code, by |-> by]
    /\ isRunning' = IF stopped THEN FALSE ELSE isRunning
    /\ timers' = IF stopped THEN [timers EXCEPT !.doPing = NoTimer] ELSE timers
    /\ lastOp' = by
    /\ prevDots' = <<>>
    /\ screen' = Display(screen, out', stdout)
    /\ UNCHANGED <<returned, evars, dh, thrown, clock, appended, posLog, origin, stdout,
                   graphWidth, graphHeight, isInitialized, isFirstRender, resizeHandler,
                   currentStats, branch, results, config, pingCount, maxPings, lastPingSuccess,
                   consecutiveFailures, alert, lastFailureTime>>

\* the flags as the handler finds them, nothing written yet
Terminal == TerminalState(cursorHidden, inAltScreen, <<>>)

\* process.exit(code): the 'exit' listeners run, that of setupCleanExit if it was
\* registered (it is registered with the resize listener, by the interactive constructor)
processExit(ts, so, hooks) == IF hooks THEN cleanup(ts, so) ELSE ts

\* shutdown(): graphRenderer.destroy(); pingEngine.stopPing(); process.exit(0)
shutdown(ts, so, hooks) == processExit(destroy(ts, so), so, hooks)

\* the timer of setTimeout(shutdown, 100) fires, after the timer of the second bell
\* when the same listener set both
ShutdownTimer ==
    /\ Len(timers.shutdown) > 0
    /\ IsDue(timers, timers.shutdown[1])
    /\ ~\E i \in 1..Len(timers.bell) : timers.bell[i] = timers.shutdown[1]
    /\ Terminate(shutdown(Terminal, stdout, resizeHandler), 0, "count", TRUE,
                 timers.shutdown[1])

\* SIGINT: the listener of setupCleanExit, registered first, runs cleanup and
\* process.exit(0); without it the listener of startPingMonitor, shutdown, runs
Sigint ==
    IF resizeHandler
    THEN Terminate(processExit(cleanup(Terminal, stdout), stdout, resizeHandler),
                   0, "SIGINT", FALSE, 0)
    ELSE Terminate(shutdown(Terminal, stdout, resizeHandler), 0, "SIGINT", TRUE, 0)

\* SIGTERM: the listener of setupCleanExit runs cleanup, then shutdown runs
Sigterm ==
    Terminate(shutdown(IF resizeHandler THEN cleanup(Terminal, stdout) ELSE Terminal,
                       stdout, resizeHandler),
              0, "SIGTERM", TRUE, 0)

\* an exception nothing catches: the listener of setupCleanExit runs cleanup, prints it
\* and process.exit(1); without the listener Node prints it and exits with code 1
UncaughtException ==
    LET cleaned == IF resizeHandler THEN cleanup(Terminal, stdout) ELSE Terminal
        printed == [cleaned EXCEPT !.out = cleaned.out \o consoleLog(<<"Uncaught exception">>)]
    IN Terminate(processExit(printed, stdout, resizeHandler), 1, "uncaughtException", FALSE,
                 0)

\* the process exits some other way: only its 'exit' listeners run
Exit == Terminate(processExit(Terminal, stdout, resizeHandler), 0, "exit", FALSE, 0)

\* the terminal of the monitor takes another width
OnResizeInMonitor ==
    /\ proc.status = "running"
    /\ OnResizeTo({SessionWidth, SessionWidth + 1}, {ReservedRows + 1})

NextMonitor ==
    \/ ResultArrives
    \/ BellTimer
    \/ DoPing
    \/ ShutdownTimer
    \/ Sigint
    \/ Sigterm
    \/ UncaughtException
    \/ Exit
    \/ OnResizeInMonitor

SpecMonitor == InitMonitor /\ [][NextMonitor]_vars

\* the event loop runs a timer's callback once its delay has passed
FairSpecMonitor == SpecMonitor /\ WF_vars(BellTimer) /\ WF_vars(ShutdownTimer)

----------------------------------------------------------------------------
(* Properties *)

\* the last n elements of a sequence
LastN(seq, n) == SubSeq(seq, Len(seq) - n + 1, Len(seq))

\* the dots of a sequence of samples
DotsOf(pings) == [i \in 1..Len(pings) |-> MakeDot(pings[i])]

\* a fresh history of the given grid after the first n of the samples were appended
RECURSIVE FreshAfter(_, _, _, _)
FreshAfter(width, height, pings, n) ==
    IF n = 0 THEN NewDotHistory(width, height).obj
    ELSE addPing(FreshAfter(width, height, pings, n - 1), pings[n])

\* position p comes before position q in row-major order
RowMajorBefore(p, q) == p.row < q.row \/ (p.row = q.row /\ p.col < q.col)

\* C1: on a fresh history of capacity C, after N addPing calls getAllDots() is the last
\* min(N, C) appended samples, oldest first.
C1_SnapshotIsLastSamplesOldestFirst ==
    origin = "fresh" =>
        getAllDots(dh) = LastN(DotsOf(appended), Min2(Len(appended), dh.capacity))

\* C2: on a fresh W x H history the positions reported after the 1st .. C-th addPing are
\* col = (n-1) mod W, row = floor((n-1)/W) mod H; they start at (0,0), come in row-major
\* order (so they are pairwise distinct) and cover the whole grid once C are reported.
C2_FirstPassIsRowMajor ==
    origin = "fresh" =>
        LET W == dh.graphWidth
            H == dh.graphHeight
            k == Min2(Len(posLog), dh.capacity)
        IN /\ \A n \in 1..k :
                /\ posLog[n].col = (n - 1) % W
                /\ posLog[n].row = ((n - 1) \div W) % H
           /\ k >= 1 => (posLog[1].col = 0 /\ posLog[1].row = 0)
           /\ \A m, n \in 1..k : m < n => RowMajorBefore(posLog[m], posLog[n])
           /\ k = dh.capacity =>
                {<<posLog[n].col, posLog[n].row>> : n \in 1..k} = (0..(W - 1)) \X (0..(H - 1))

C2_Witness ==
    /\ origin = "fresh"
    /\ dh.graphWidth >= 2
    /\ dh.graphHeight >= 2
    /\ Len(posLog) = dh.capacity

\* C3: the wrapped flag read right after the n-th append is true if and only if
\* n > capacity and (n-1) mod width = 0.
C3_WrappedIffRowReused ==
    origin = "fresh" =>
        \A n \in 1..Len(posLog) :
            posLog[n].justWrapped <=> (n > dh.capacity /\ (n - 1) % dh.graphWidth = 0)

\* interactive mode, the n-th sample just delivered, no resize or clear since construction
Delivered(n) ==
    /\ lastOp = "addPingResult"
    /\ resizeHandler
    /\ isTTY(stdout)
    /\ origin = "fresh"
    /\ Len(appended) = n

\* C4: interactive, no resize or clear: for the n-th sample with n > C the renderer emits
\* one scroll-up-by-one exactly when (n-1) mod W = 0, followed by the dot at the bottom
\* grid row, column 1; otherwise no scroll and the dot at the bottom row, column
\* ((n-1) mod W) + 1.
C4_ScrollExactlyAtRowStart ==
    \A n \in 1..MaxPings :
        (Delivered(n) /\ n > dh.capacity) =>
            LET bottom == graphTop + graphHeight - 1
                glyph == Text(MakeDot(appended[n]).colorCode)
                scrolls == {i \in 1..Len(out) : out[i].seq = "scrollUp"}
            IN IF (n - 1) % graphWidth = 0
               THEN \E i \in 1..(Len(out) - 2) :
                       /\ scrolls = {i}
                       /\ out[i] = scrollUp(1)
                       /\ out[i + 1] = moveTo(bottom, 1)
                       /\ out[i + 2] = glyph
               ELSE /\ scrolls = {}
                    /\ out[1] = moveTo(bottom, ((n - 1) % graphWidth) + 1)
                    /\ out[2] = glyph

\* the 7th sample on a 3 x 2 grid
C4_Witness ==
    /\ Delivered(7)
    /\ graphWidth = 3
    /\ graphHeight = 2
    /\ \E i \in 1..Len(out) : out[i].seq = "scrollUp"

\* C5: interactive: for the n-th sample with n <= capacity the renderer emits no scroll
\* and no scroll-region sequence and paints the dot at terminal row
\* graphTop + floor((n-1)/W), column ((n-1) mod W) + 1.
C5_FirstPassPaintsInPlace ==
    \A n \in 1..MaxPings :
        (Delivered(n) /\ n <= dh.capacity) =>
            /\ \A i \in 1..Len(out) : out[i].seq \notin {"scrollUp", "setScrollRegion"}
            /\ out[1] = moveTo(graphTop + ((n - 1) \div graphWidth),
                               ((n - 1) % graphWidth) + 1)
            /\ out[2] = Text(MakeDot(appended[n]).colorCode)

\* the last cell of a grid of two rows or more
C5_Witness ==
    /\ Delivered(dh.capacity)
    /\ graphWidth >= 2
    /\ graphHeight >= 2

\* C6: if getAllDots() is D1..Dk before resize(W', H'), getAllDots() after it is the last
\* min(k, C') of them in the same order, the same dots.
C6_ResizeKeepsNewestInOrder ==
    (lastOp = "resize" /\ thrown = "none") =>
        getAllDots(dh) = LastN(prevDots, Min2(Len(prevDots), dh.capacity))

\* C7: after clear(), appending samples yields the same getCurrentPosition() results
\* and the same write counts as appending them to a fresh history of the same grid.
C7_ClearThenAppendLikeFresh ==
    origin = "cleared" =>
        /\ Len(posLog) = Len(appended)
        /\ \A n \in 1..Len(appended) :
              posLog[n] = getCurrentPosition(
                              FreshAfter(dh.graphWidth, dh.graphHeight, appended, n))
        /\ getWriteCount(dh) =
              getWriteCount(FreshAfter(dh.graphWidth, dh.graphHeight, appended, Len(appended)))

\* a history that held samples, was cleared and then filled once more
C7_Witness ==
    /\ origin = "cleared"
    /\ dh.graphWidth >= 2
    /\ dh.graphHeight >= 2
    /\ Len(posLog) = dh.capacity
    /\ clock > Len(appended)

\* C8: constructing or resizing with width <= 0 or height <= 0 fails with an
\* InvalidDimensions error, so capacity >= 1 in every state.
C8_InvalidDimensionsRejected ==
    /\ (lastOp \in {"new", "resize"} /\ (dh.graphWidth <= 0 \/ dh.graphHeight <= 0))
          => thrown = "InvalidDimensions"
    /\ Alive => dh.capacity >= 1

\* the category a sample of the given success flag and latency (in 1/Scale ms) is
\* to get, by the table of the claim
TableCategory(success, latency) ==
    CASE ~success \/ latency = Undefined -> FAILED
      [] success /\ latency # Undefined /\ latency < 50 * Scale -> EXCELLENT
      [] success /\ 50 * Scale <= latency /\ latency < 100 * Scale -> GOOD
      [] success /\ 100 * Scale <= latency /\ latency < 200 * Scale -> FAIR
      [] success /\ 200 * Scale <= latency /\ latency < 500 * Scale -> POOR
      [] success /\ 500 * Scale <= latency -> VERY_POOR

\* the stored dot is the one of the given category
StoredDotIs(category) ==
    /\ 0 \in DOMAIN dh.history
    /\ dh.history[0].colorCode = <<DefaultColors(category), glyphMap(category), RESET_COLOR>>
    /\ dh.history[0].char = glyphMap(category)

\* C9: the category addPing assigns is FAILED when success is false or the latency is
\* absent, otherwise EXCELLENT below 50, GOOD in [50,100), FAIR in [100,200), POOR in
\* [200,500), VERY_POOR from 500 on.
C9_CategoryTable ==
    lastOp = "addPing" =>
        /\ StoredDotIs(TableCategory(appended[1].success, appended[1].latency))
        /\ (appended[1].success /\ appended[1].latency = 50 * Scale - 1) => StoredDotIs(EXCELLENT)
        /\ (appended[1].success /\ appended[1].latency = 50 * Scale) => StoredDotIs(GOOD)
        /\ (appended[1].success /\ appended[1].latency = 100 * Scale) => StoredDotIs(FAIR)
        /\ (~appended[1].success /\ appended[1].latency = 5 * Scale) => StoredDotIs(FAILED)
        /\ (appended[1].success /\ appended[1].latency = Undefined) => StoredDotIs(FAILED)

\* a failed sample that carries a latency
C9_Witness ==
    /\ lastOp = "addPing"
    /\ ~appended[1].success
    /\ appended[1].latency = 5 * Scale
    /\ StoredDotIs(FAILED)

\* the thresholds with the category below and the category above each
Boundaries ==
    {<<50, EXCELLENT, GOOD>>, <<100, GOOD, FAIR>>, <<200, FAIR, POOR>>,
     <<500, POOR, VERY_POOR>>}

\* C10 as stated: a successful sample whose latency equals a threshold gets the lower
\* of the two adjacent categories.
C10_BoundaryGoesLower ==
    \A b \in Boundaries :
        (lastOp = "addPing" /\ appended[1].success /\ appended[1].latency = b[1] * Scale)
            => StoredDotIs(b[2])

\* C10 amended: a successful sample whose latency equals a threshold (50, 100, 200,
\* 500) gets the higher of the two adjacent categories.
C10_BoundaryGoesHigher ==
    \A b \in Boundaries :
        (lastOp = "addPing" /\ appended[1].success /\ appended[1].latency = b[1] * Scale)
            => StoredDotIs(b[3])

C10_Witness ==
    /\ lastOp = "addPing"
    /\ appended[1].success
    /\ appended[1].latency = 500 * Scale
    /\ StoredDotIs(VERY_POOR)

\* the sequences of the given two kinds among those written, in order
Written(on, off) ==
    LET IsOne(w) == w \in {on, off} IN SelectSeq(emitted, IsOne)

\* the sequences of the two kinds alternate, the first being on, and the flag is the
\* number of on sequences less the number of off sequences, 0 or 1
Alternates(on, off, flag) ==
    LET written == Written(on, off)
        IsOn(w) == w = on
        IsOff(w) == w = off
        balance == Len(SelectSeq(written, IsOn)) - Len(SelectSeq(written, IsOff))
    IN /\ \A i \in 1..Len(written) : written[i] = IF i % 2 = 1 THEN on ELSE off
       /\ balance \in {0, 1}
       /\ flag <=> (balance = 1)

\* the step is a call that finds its flag already as it would set it
RedundantCall ==
    \/ lastOp' = "enterAltScreen" /\ inAltScreen
    \/ lastOp' = "exitAltScreen" /\ ~inAltScreen
    \/ lastOp' = "hideCursor" /\ cursorHidden
    \/ lastOp' = "showCursor" /\ ~cursorHidden

\* C14: with stdout a TTY, the enter/exit alternate-screen sequences written alternate,
\* starting with enter, and inAltScreen is the number of enter sequences less the number
\* of exit sequences, 0 or 1; the same for hide/show cursor and cursorHidden; a redundant
\* call writes nothing and changes no state.
C14_FlagsGuardSequences ==
    /\ [](isTTY(stdout) =>
             /\ Alternates(ENTER_ALT_SCREEN, EXIT_ALT_SCREEN, inAltScreen)
             /\ Alternates(HIDE_CURSOR, SHOW_CURSOR, cursorHidden))
    /\ [][(isTTY(stdout) /\ RedundantCall) =>
             (out' = <<>> /\ UNCHANGED <<inAltScreen, cursorHidden, emitted>>)]_vars

\* the alternate screen entered, left and entered again, then a second enter that
\* wrote nothing
C14_Witness ==
    /\ isTTY(stdout)
    /\ lastOp = "enterAltScreen"
    /\ out = <<>>
    /\ inAltScreen
    /\ Written(ENTER_ALT_SCREEN, EXIT_ALT_SCREEN)
          = <<ENTER_ALT_SCREEN, EXIT_ALT_SCREEN, ENTER_ALT_SCREEN>>
    /\ cursorHidden

\* the calls of the renderer's public interface
RendererCalls == {"addPingResult", "updateStats", "clearScreen", "destroy"}

\* the sequences that address the cursor, scroll, switch screens or show and hide the cursor
AddressingSequences ==
    {"moveTo", "setScrollRegion", "scrollUp", "enterAltScreen", "exitAltScreen",
     "hideCursor", "showCursor"}

\* C12: while stdout is not a TTY, no addPingResult, updateStats, clearScreen or destroy
\* call writes a cursor-positioning, scroll-region, scroll, alternate-screen or
\* cursor-visibility sequence.
C12_FallbackNeverAddressesCursor ==
    (~isTTY(stdout) /\ lastOp \in RendererCalls) =>
        \A i \in 1..Len(out) : out[i].seq \notin AddressingSequences

\* a renderer constructed on a stream that is no TTY repaints two samples on updateStats
C12_Witness ==
    /\ ~isTTY(stdout)
    /\ ~isInitialized
    /\ lastOp = "updateStats"
    /\ getWriteCount(dh) >= 2
    /\ Len(out) > 0

\* C13: every addPingResult, updateStats, clearScreen and destroy call takes the path of
\* the mode chosen when the renderer was constructed (isInitialized is set exactly by
\* the interactive constructor), whatever process.stdout.isTTY reads at the call.
C13_ModeFixedAtConstruction ==
    lastOp \in RendererCalls =>
        branch = (IF isInitialized THEN "interactive" ELSE "fallback")

\* the dots the history retains, oldest first
RetainedDots == LastN(DotsOf(appended), Min2(Len(appended), dh.capacity))

\* C20: while stdout is not a TTY, an updateStats call (once a sample was delivered)
\* writes, in this order: the clear, the static header, every retained dot oldest first
\* in rows of graphWidth glyphs with a line break after each full row, the latest-sample
\* line of the newest dot, the stats line.
C20_FallbackRepaintsOldestFirst ==
    (~isTTY(stdout) /\ lastOp = "updateStats" /\ Len(appended) >= 1) =>
        out = consoleClear(stdout) \o showStaticHeader
                 \o consoleLog(blocksLoop(RetainedDots, graphWidth, 1, 0))
                 \o renderLatestPingFallback(appended[Len(appended)])
                 \o renderStats(currentStats)

\* the given dots ordered by the time of their samples, oldest first
RECURSIVE OldestFirst(_)
OldestFirst(dots) ==
    IF Len(dots) = 0 THEN <<>>
    ELSE LET first == CHOOSE i \in 1..Len(dots) :
                          \A j \in 1..Len(dots) : dots[i].ping.timestamp <= dots[j].ping.timestamp
             others == [j \in 1..(Len(dots) - 1) |-> IF j < first THEN dots[j] ELSE dots[j + 1]]
         IN <<dots[first]>> \o OldestFirst(others)

\* dot i (0-based) of the given dots painted at row graphTop + floor(i / width), column
\* (i mod width) + 1, for every i in order
RECURSIVE PaintedInGrid(_, _, _)
PaintedInGrid(dots, width, i) ==
    IF i >= Len(dots) THEN <<>>
    ELSE <<moveTo(graphTop + (i \div width), (i % width) + 1), Text(dots[i + 1].colorCode)>>
            \o PaintedInGrid(dots, width, i + 1)

\* C18: a resize notification in interactive mode whose grid differs resizes the history
\* to the new grid and writes, in this order: clear-screen, the static header,
\* set-scroll-region graphTop..graphTop+newHeight-1, then every retained dot i (0-based,
\* oldest first) at row graphTop + floor(i/newWidth), column (i mod newWidth) + 1.
C18_ResizeRepaintsOldestFirst ==
    (lastOp = "resize" /\ isTTY(stdout) /\ thrown = "none") =>
        /\ getDimensions(dh) = [width |-> graphWidth, height |-> graphHeight]
        /\ out = <<clearScreen>> \o drawStaticHeader
                    \o <<setScrollRegion(graphTop, graphTop + graphHeight - 1)>>
                    \o PaintedInGrid(OldestFirst(getAllDots(dh)), graphWidth, 0)

\* C16: after M results were saved (since the start or the last clearHistory()),
\* calculateStats() reports totalPings = M, and totalPings = successfulPings +
\* failedPings.
C16_TotalCountsEveryResult ==
    LET stats == calculateStats(results, now)
    IN /\ stats.totalPings = Len(appended)
       /\ stats.totalPings = stats.successfulPings + stats.failedPings

\* the given sequence is among those written since the process started
WasWritten(sequence) == \E i \in 1..Len(emitted) : emitted[i] = sequence

\* C11: once an interactive renderer has entered the alternate screen and hidden the
\* cursor, the process, whichever way it ends (shutdown after the count, SIGINT, SIGTERM,
\* uncaught exception, plain exit), ends with cursorHidden = false and inAltScreen =
\* false, the show-cursor and exit-alt-screen sequences written.
C11_ExitRestoresTerminal ==
    (proc.status = "exited" /\ isInitialized
        /\ WasWritten(ENTER_ALT_SCREEN) /\ WasWritten(HIDE_CURSOR)) =>
        /\ ~cursorHidden
        /\ ~inAltScreen
        /\ WasWritten(SHOW_CURSOR)
        /\ WasWritten(EXIT_ALT_SCREEN)

\* an interactive monitor that SIGTERM ends after a result was painted
C11_Witness ==
    /\ proc.status = "exited"
    /\ proc.by = "SIGTERM"
    /\ isInitialized
    /\ pingCount >= 1
    /\ ~cursorHidden
    /\ ~inAltScreen
    /\ emitted = <<ENTER_ALT_SCREEN, HIDE_CURSOR, SHOW_CURSOR, EXIT_ALT_SCREEN>>

\* what holds of the count in every state
CountRespected ==
    /\ maxPings > 0 => pingCount <= maxPings
    /\ proc.status = "running" =>
          Len(timers.shutdown) = (IF CountReached(maxPings, pingCount) THEN 1 ELSE 0)
    /\ proc.by = "count" =>
          /\ maxPings > 0
          /\ pingCount = maxPings
          /\ ~isRunning
          /\ proc.code = 0
    /\ maxPings = 0 => (timers.shutdown = <<>> /\ proc.by # "count")

\* C15: started with count = N > 0 the monitor handles N results and then shuts down
\* (stops the ping engine, exits): the shutdown is scheduled as soon as the N-th result
\* is handled, no (N+1)-th result is ever handled, and once the N-th is handled the
\* process ends; with count = 0 no shutdown is ever scheduled.
C15_StopsAfterCount ==
    /\ []CountRespected
    /\ CountReached(maxPings, pingCount) ~> (proc.status = "exited")

\* the monitor handled its two results and the shutdown timer ended it
C15_Witness ==
    /\ proc.by = "count"
    /\ maxPings = 2
    /\ pingCount = 2
    /\ ~isRunning

\* C17: the recovery alert is asked for exactly when the result is a success and the
\* result processed just before it was a failure (never for the first result); the
\* failure alert is asked for exactly when the result is a failure; a success that is no
\* recovery gets neither.
C17_AlertsFollowOutcome ==
    lastOp = "result" =>
        LET n == Len(results)
            afterFailure == n >= 2 /\ ~results[n - 1].success
        IN /\ alert = "recovery" <=> (results[n].success /\ afterFailure)
           /\ alert = "failure" <=> ~results[n].success
           /\ (results[n].success /\ ~afterFailure) => alert \in {"none", "latency"}

\* a success, a failure, then the success that is the recovery
C17_Witness ==
    /\ lastOp = "result"
    /\ Len(results) = 3
    /\ results[1].success
    /\ ~results[2].success
    /\ results[3].success
    /\ alert = "recovery"

\* the statistics less the text of the time elapsed as they were calculated
Counts(stats) == [field \in DOMAIN stats \ {"elapsedTime"} |-> stats[field]]

\* every result received is saved, counted, appended and in the statistics shown
SampleHandledWhole ==
    /\ pingCount = Len(results)
    /\ appended = results
    /\ clock = pingCount
    /\ Counts(currentStats) =
          (IF pingCount = 0 THEN NoStats ELSE Counts(calculateStats(results, now)))
    /\ lastPingSuccess = (IF pingCount = 0 THEN "null"
                          ELSE IF results[pingCount].success THEN "true" ELSE "false")

\* the step handles a sample: it leaves the grid alone and writes, after the bell of
\* its alert if it rings one, the cell, the latest-sample line and the statistics,
\* nothing of a replay
SampleStep ==
    lastOp' = "result" =>
        /\ UNCHANGED <<stdout, graphWidth, graphHeight>>
        /\ getDimensions(dh') = getDimensions(dh)
        /\ isTTY(stdout) =>
              \E bells \in {<<>>, Bell} :
                 out' = bells
                          \o renderIncrementalUpdate(dh', graphWidth, graphHeight, stdout,
                                                     MakeDot(results'[Len(results')]))
                          \o updateStatsDisplay(stdout, calculateStats(results', now'))

\* the step handles a resize notification: it leaves the samples alone and writes the
\* replay only
ResizeStep ==
    lastOp' \in {"resize", "resizeSameGrid"} =>
        /\ UNCHANGED <<results, pingCount, appended, clock, currentStats, lastPingSuccess,
                       consecutiveFailures>>
        /\ out' = (IF lastOp' = "resize"
                   THEN redrawAfterResize(dh', graphWidth', graphHeight', stdout')
                   ELSE <<>>)

\* the step is the timer of the second bell of a recovery alert: it leaves the samples,
\* the history and the grid alone and writes the bell only
BellStep ==
    lastOp' = "bell" =>
        /\ UNCHANGED <<results, pingCount, appended, clock, currentStats, lastPingSuccess,
                       consecutiveFailures, dh, stdout, graphWidth, graphHeight>>
        /\ out' = Bell

\* C19: the handling of a sample (save, sound state, append, cell paint, stats repaint)
\* is one step of the event loop: whenever a listener starts every sample received is
\* handled whole, a sample's step does no resize, and a resize step and the step of the
\* second bell handle no sample.
C19_SampleHandledInOneTurn ==
    /\ []SampleHandledWhole
    /\ [][SampleStep /\ ResizeStep /\ BellStep]_vars

\* a resize notification handled between the first and the second sample, whose alert
\* rings the bell
C19_Witness ==
    /\ lastOp = "result"
    /\ origin = "resized"
    /\ pingCount = 2
    /\ isTTY(stdout)
    /\ currentStats = calculateStats(results, now)
    /\ Head(out) = Text(<<BEL>>)

\* C22: clear() sets the write count to 0 and makes getAllDots() empty, no slot holding
\* a dot, and leaves width, height and capacity as they were.
C22_ClearEmptiesAndKeepsGrid ==
    [][lastOp' = "clear" =>
          /\ thrown' = "none"
          /\ getWriteCount(dh') = 0
          /\ getAllDots(dh') = <<>>
          /\ DOMAIN dh'.history = {}
          /\ getDimensions(dh') = getDimensions(dh)
          /\ getCapacity(dh') = getCapacity(dh)]_vars

\* a grid of two rows and two columns or more that took samples and was cleared
C22_Witness ==
    /\ lastOp = "clear"
    /\ clock >= 2
    /\ thrown = "none"
    /\ getWriteCount(dh) = 0
    /\ dh.graphWidth >= 2
    /\ dh.graphHeight >= 2
    /\ getCapacity(dh) = dh.graphWidth * dh.graphHeight

\* the slots a history of the given write count and capacity occupies
OccupiedSlots(d) == 0..(Min2(d.writeCount, d.capacity) - 1)

\* the slot holding the oldest of the dots retained, by the time of their samples
OldestSlot(d) ==
    CHOOSE i \in DOMAIN d.history :
        \A j \in DOMAIN d.history :
            d.history[i].ping.timestamp <= d.history[j].ping.timestamp

\* C23: with capacity C >= 1 every slot i < min(writeCount, C) holds one dot and no
\* other slot holds any; an append writes its dot to slot writeCount mod C and leaves the
\* other slots alone; once writeCount >= C every slot is occupied and the slot an append
\* overwrites is the one holding the oldest retained dot.
C23_SlotHoldsLastWriteOldestEvicted ==
    /\ [](dh.capacity >= 1 => DOMAIN dh.history = OccupiedSlots(dh))
    /\ [][(lastOp' = "addPing" /\ dh.capacity >= 1) =>
             LET index == dh.writeCount % dh.capacity
             IN /\ dh'.history[index] = MakeDot(appended'[Len(appended')])
                /\ \A i \in DOMAIN dh.history \ {index} : dh'.history[i] = dh.history[i]
                /\ dh.writeCount >= dh.capacity =>
                      /\ DOMAIN dh.history = 0..(dh.capacity - 1)
                      /\ index = OldestSlot(dh)]_vars

\* C25: resize with positive dimensions on a history whose write count is 0 throws
\* nothing and leaves it empty: write count 0, getAllDots() empty, the new grid taken.
C25_ResizeOfEmptyIsHarmless ==
    [][(lastOp' = "resize" /\ getWriteCount(dh) = 0) =>
          /\ thrown' = "none"
          /\ getWriteCount(dh') = 0
          /\ getAllDots(dh') = <<>>
          /\ getCapacity(dh') = dh'.graphWidth * dh'.graphHeight]_vars

\* an empty history resized to a grid of two rows and two columns or more
C25_Witness ==
    /\ lastOp = "resize"
    /\ thrown = "none"
    /\ prevDots = <<>>
    /\ getWriteCount(dh) = 0
    /\ dh.graphWidth >= 2
    /\ dh.graphHeight >= 2

\* C27: after any interleaving of addPing, resize and clear, getAllDots() is the last
\* min(writeCount, capacity) samples appended since the last clear, oldest first (a
\* contiguous suffix ending with the newest, no gap, no duplicate), and writeCount <=
\* capacity right after a resize.
C27_SnapshotIsSuffixOfAppended ==
    LET all == getAllDots(dh)
    IN /\ Len(all) = Min2(getWriteCount(dh), getCapacity(dh))
       /\ Len(all) <= Len(appended)
       /\ all = LastN(DotsOf(appended), Min2(Len(all), Len(appended)))
       /\ lastOp = "resize" => getWriteCount(dh) <= getCapacity(dh)

\* the rows of the grid, which are those of the scroll region
GridRows == graphTop..(graphTop + graphHeight - 1)

\* the rows of the header
HeaderRows == 1..headerHeight

\* the rows of the latest-sample line and of the stats line
FooterRows == {getTerminalSize(stdout).height - 2, getTerminalSize(stdout).height - 1}

\* C21: for every terminal size the grid rows, which every scroll region set covers
\* exactly, are disjoint from the header rows 1..5 and from the rows of the latest-sample
\* line (height - 2) and the stats line (height - 1); a line repainted with clear-line
\* is on no grid row.
C21_GridApartFromHeaderAndFooter ==
    isInitialized =>
        /\ GridRows \cap HeaderRows = {}
        /\ GridRows \cap FooterRows = {}
        /\ \A i \in 1..Len(out) :
              /\ out[i].seq = "setScrollRegion" => out[i].top..out[i].bottom = GridRows
              /\ (out[i].seq = "clearLine" /\ i > 1 /\ out[i - 1].seq = "moveTo")
                    => out[i - 1].row \notin GridRows

\* what was written is the glyph of a dot
IsDotText(w) == w.seq = "text" /\ Len(w.text) = 3 /\ w.text[2] \in Glyphs

\* the cursor moves among what was written that a dot follows
DotMoves(written) ==
    {i \in 1..(Len(written) - 1) : written[i].seq = "moveTo" /\ IsDotText(written[i + 1])}

\* C30: every cursor move the renderer writes to paint a dot, in a live update or in a
\* resize replay, addresses a row in graphTop..graphTop+graphHeight-1 and a column in
\* 1..graphWidth; a live update paints one dot, a replay every retained dot, and
\* getCurrentPosition() is read only with a write count of 1 or more (its column is
\* never -1).
C30_DotMovesStayInGrid ==
    isTTY(stdout) =>
        /\ \A i \in DotMoves(out) :
              /\ out[i].row \in GridRows
              /\ out[i].col \in 1..graphWidth
        /\ \A i \in 1..Len(out) : IsDotText(out[i]) => (i - 1) \in DotMoves(out)
        /\ lastOp = "addPingResult" =>
              /\ Cardinality(DotMoves(out)) = 1
              /\ getWriteCount(dh) >= 1
              /\ getCurrentPosition(dh).col \in 0..(graphWidth - 1)
        /\ lastOp = "resize" => Cardinality(DotMoves(out)) = Len(getAllDots(dh))

\* a replay of four dots into a grid of two rows, three columns
C30_Witness ==
    /\ isTTY(stdout)
    /\ lastOp = "resize"
    /\ graphWidth = 3
    /\ graphHeight = 2
    /\ Cardinality(DotMoves(out)) = 4
    /\ \E i \in DotMoves(out) : out[i].row = graphTop + 1

\* C26: the ring history of the renderer, as constructed and after every resize
\* notification, has width >= 1 and height >= 1, whatever size the terminal reports: the
\* width is the column count reported, 80 when none is, and the height is
\* max(1, rows - 8), rows being 24 when none are reported.
C26_GridNeverEmpty ==
    LET columns == IF stdout.columns = 0 THEN 80 ELSE stdout.columns
        rows == IF stdout.rows = 0 THEN 24 ELSE stdout.rows
    IN /\ thrown = "none"
       /\ getDimensions(dh).width >= 1
       /\ getDimensions(dh).height >= 1
       /\ getCapacity(dh) >= 1
       /\ getDimensions(dh).width = columns
       /\ getDimensions(dh).height = Max2(1, rows - 8)

\* a terminal of two rows that comes to report no columns, samples in its history
C26_Witness ==
    /\ isTTY(stdout)
    /\ lastOp = "resize"
    /\ stdout.columns = 0
    /\ stdout.rows = 2
    /\ getDimensions(dh) = [width |-> 80, height |-> 1]
    /\ getWriteCount(dh) >= 2

\* C29: in every state of an interactive renderer its graphWidth and graphHeight are
\* the width and height of its ring history, and graphWidth * graphHeight is the
\* capacity of the history, after any resize notifications.
C29_RendererGridIsHistoryGrid ==
    isInitialized =>
        /\ getDimensions(dh) = [width |-> graphWidth, height |-> graphHeight]
        /\ graphWidth * graphHeight = getCapacity(dh)

\* a second resize notification, to a grid of two rows
C29_Witness ==
    /\ isInitialized
    /\ lastOp = "resize"
    /\ prevDots # <<>>
    /\ graphHeight = 2
    /\ graphWidth = 2
    /\ getCapacity(dh) = 4
    /\ clock = MaxSizePings

\* the contents of the cells at the given places, in row-major order
RECURSIVE RowMajor(_, _)
RowMajor(cells, places) ==
    IF places = {} THEN <<>>
    ELSE LET first == CHOOSE p \in places :
                          \A q \in places : p[1] < q[1] \/ (p[1] = q[1] /\ p[2] <= q[2])
         IN <<cells[first]>> \o RowMajor(cells, places \ {first})

\* the glyphs visible in the grid rows of the screen, read row-major from the top
VisibleDots ==
    RowMajor(screen.cells,
             {p \in DOMAIN screen.cells : p[1] \in GridRows /\ IsGlyphText(screen.cells[p])})

\* the coloured glyphs of the given dots
GlyphsOf(dots) == [i \in 1..Len(dots) |-> dots[i].colorCode]

\* C28: interactive, 9 rows or more: after any samples, resizes and clearScreen calls
\* the dots visible in the grid rows, read row-major, are a suffix of getAllDots()
\* ending with the newest dot, and all of getAllDots() while the grid has not overflowed
\* since the last resize or clear; an append right after a resize replay paints the cell
\* following the last replayed dot.
C28_ScreenShowsSnapshotSuffix ==
    /\ [](LET all == GlyphsOf(getAllDots(dh))
               vis == VisibleDots
           IN /\ Len(vis) <= Len(all)
              /\ vis = LastN(all, Len(vis))
              /\ appended # <<>> =>
                    (vis # <<>> /\ vis[Len(vis)] = MakeDot(appended[Len(appended)]).colorCode)
              /\ getWriteCount(dh) <= getCapacity(dh) => vis = all)
    /\ [][(lastOp = "resize" /\ lastOp' = "addPingResult"
                /\ getWriteCount(dh) < getCapacity(dh)) =>
             out'[1] = moveTo(graphTop + (getWriteCount(dh) \div graphWidth),
                              (getWriteCount(dh) % graphWidth) + 1)]_vars

\* the 0-based indices of the dots a replay goes through
ReplayIndices == 0..(Len(getAllDots(dh)) - 1)

\* C37: a replay after a resize or a clear never takes the scrolling branch of
\* replayDotsForResize: the history hands over at most graphWidth * graphHeight dots, so
\* floor(i / graphWidth) < graphHeight for every index i replayed, and nothing written
\* by the replay is a scroll-up sequence.
C37_ReplayNeverScrolls ==
    (lastOp \in {"resize", "clearScreen"} /\ isTTY(stdout)) =>
        /\ Len(getAllDots(dh)) <= graphWidth * graphHeight
        /\ \A i \in ReplayIndices : JSFloorDiv(i, graphWidth) < graphHeight
        /\ \A k \in 1..Len(out) : out[k].seq # "scrollUp"
        /\ Cardinality(DotMoves(out)) = Len(getAllDots(dh))

\* a replay that fills every cell of a grid of two rows, two columns
C37_Witness ==
    /\ isTTY(stdout)
    /\ lastOp = "resize"
    /\ graphWidth = 2
    /\ graphHeight = 2
    /\ Len(getAllDots(dh)) = 4
    /\ Cardinality(DotMoves(out)) = 4

\* the length of the run of results with success = false that a sequence ends with
RECURSIVE TrailingFailures(_)
TrailingFailures(seq) ==
    IF Len(seq) = 0 \/ seq[Len(seq)].success THEN 0
    ELSE 1 + TrailingFailures(SubSeq(seq, 1, Len(seq) - 1))

\* C38: after any sequence of processResult calls, lastPingSuccess is false exactly when
\* consecutiveFailures > 0, consecutiveFailures is the length of the run of failed
\* results (success = false) the sequence ends with, and lastPingSuccess is null only
\* before the first result.
C38_SoundEngineTracksTrailingFailures ==
    /\ (lastPingSuccess = "false") <=> (consecutiveFailures > 0)
    /\ consecutiveFailures = TrailingFailures(results)
    /\ (lastPingSuccess = "null") <=> (Len(results) = 0)
    /\ Len(results) > 0 =>
          lastPingSuccess = (IF results[Len(results)].success THEN "true" ELSE "false")

\* a success, then two failures in a row
C38_Witness ==
    /\ Len(results) = 3
    /\ results[1].success
    /\ consecutiveFailures = 2
    /\ lastPingSuccess = "false"

\* the dot the history took for the last result
LastDot == getLastDots(dh, 1)[1]

\* C35: for every result the monitor handles, the failure alert is requested exactly
\* when the display shows the result with the failed glyph and the statistics count it
\* as failed (success is false or the latency is absent), and a result the display
\* shows as failed is never a success for the recovery tracking of the sound engine.
C35_FailureAlertIffShownFailed ==
    lastOp = "result" =>
        LET result == results[Len(results)]
            shownFailed == LastDot.char = glyphMap(FAILED)
            countedFailed == calculateStats(<<result>>, now).failedPings = 1
        IN /\ LastDot.ping = result
           /\ shownFailed <=> countedFailed
           /\ shownFailed <=> (~result.success \/ result.latency = Undefined)
           /\ (alert = "failure") <=> shownFailed
           /\ shownFailed => lastPingSuccess = "false"

\* the results of the dots a history retains, as getAllDots() returns them
RetainedPings == [i \in 1..Len(getAllDots(dh)) |-> getAllDots(dh)[i].ping]

\* the retained dots that carry the failed glyph
FailedDots == {i \in 1..Len(getAllDots(dh)) : getAllDots(dh)[i].char = glyphMap(FAILED)}

\* C34: a result is counted in failedPings exactly when the ring history classifies it
\* as FAILED (success false or latency absent); so the statistics over the results a
\* history retains (all the results appended, while none was dropped) have failedPings
\* = the number of failed-glyph dots, successfulPings = the number of the other dots,
\* and packetLoss = 100 * failedPings / totalPings (as the double the division and the
\* product give) within [0, 100].
C34_StatsAgreeWithHistory ==
    LET dots == getAllDots(dh)
        stats == calculateStats(RetainedPings, now)
        loss == stats.packetLoss
    IN /\ \A i \in 1..Len(dots) :
             /\ (calculateStats(<<dots[i].ping>>, now).failedPings = 1) <=> (i \in FailedDots)
             /\ (i \in FailedDots) <=> (~dots[i].ping.success \/ dots[i].ping.latency = Undefined)
       /\ stats.totalPings = Len(dots)
       /\ stats.failedPings = Cardinality(FailedDots)
       /\ stats.successfulPings = Len(dots) - Cardinality(FailedDots)
       /\ Len(dots) > 0 => loss = Ratio(100 * stats.failedPings, stats.totalPings)
       /\ 0 <= loss.num /\ loss.num <= 100 * loss.den
       /\ NumberToFixed1(PacketLoss(loss)) \in 0..1000
       /\ (getWriteCount(dh) = Len(appended) /\ Len(appended) <= getCapacity(dh)) =>
             /\ calculateStats(appended, now).failedPings = Cardinality(FailedDots)
             /\ calculateStats(appended, now).successfulPings = Len(dots) - Cardinality(FailedDots)

\* a history holding a failure, a success without latency and a success with one
C34_Witness ==
    /\ lastOp = "addPing"
    /\ \E i \in FailedDots : ~getAllDots(dh)[i].ping.success
    /\ \E i \in FailedDots : getAllDots(dh)[i].ping.success
    /\ Cardinality(FailedDots) = 2
    /\ Len(getAllDots(dh)) >= 3

\* C36: after any sequence of saveResult calls the stored results number at most
\* maxResults and are the most recent min(M, maxResults) of the M results saved, in
\* arrival order; getResults() returns the stored results in a new array, so a caller
\* that empties the array it was given leaves the stored results as they were.
C36_StoredResultsAreRecentAndPrivate ==
    /\ [](/\ Len(results) <= maxResults
          /\ Len(results) = Min2(Len(appended), maxResults)
          /\ results = LastN(appended, Min2(Len(appended), maxResults))
          /\ \A i \in 1..Len(appended) : appended[i] = Samples(clock)[clock - Len(appended) + i])
    /\ [][lastOp' = "getResults" =>
             /\ getResultsCall(results).result = results
             /\ results' = results]_vars

\* one result more than maxResults was saved, and a caller emptied what getResults()
\* returned
C36_Witness ==
    /\ clock = maxResults + 1
    /\ Len(results) = maxResults
    /\ results[1].timestamp = 2
    /\ lastOp = "getResults"
    /\ returned = Emptied

\* the number of ping loops of the engine: pings in flight and doPing timers pending
Loops == Cardinality(engine.flights) + Cardinality(engine.pending)

\* C31: whatever the order of startContinuousPing() and stopPing() calls, pings
\* resolving and timers firing, the PingEngine has at most one ping loop: at most one
\* ping in flight or one next-ping timer pending, never two pings in flight, never a
\* ping in flight together with a pending timer; and startContinuousPing() on a running
\* engine starts nothing.
C31_AtMostOneLoop ==
    /\ [](Loops <= 1)
    /\ [][(isRunning /\ lastOp' = "startContinuousPing") => engine' = engine]_vars

\* C32: from a stopPing() to the next startContinuousPing() no ping is started and no
\* next-ping timer is pending, and at most one 'result' is emitted, for a ping that was
\* in flight when stopPing() was called.
C32_StopEndsTheLoop ==
    ~isRunning =>
        /\ engine.pending = {}
        /\ engine.window.spawned = {}
        /\ Len(engine.window.results) <= 1
        /\ \A i \in 1..Len(engine.window.results) :
              engine.window.results[i] \in engine.window.atStop

\* C33 as stated: a call of ping() gives exactly one result and never rejects, in
\* whatever order the timeout timer, 'close' and 'error' come: the timeout first gives the
\* failure 'Timeout' (a later 'close' leaves it), 'close' with code 0 first a success,
\* 'close' with another code or 'error' first a failure; so doPing emits one 'result' per
\* call and never 'error'.
C33_TimeoutFirstGivesTimeout ==
    call # NoCall =>
        /\ call.promise.state \in {"pending", "fulfilled"}
        /\ (call.promise.state = "pending") <=> (call.emitted = <<>>)
        /\ call.promise.state = "fulfilled" =>
              /\ Len(call.emitted) = 1
              /\ call.emitted[1].event = "result"
              /\ call.first = "timeout" =>
                    /\ ~call.promise.value.success
                    /\ call.promise.value.error = "Timeout"
              /\ call.first = "close0" => call.promise.value.success
              /\ call.first \in {"closeN", "error"} => ~call.promise.value.success

\* C33: a call of ping() gives exactly one result and never rejects, in whatever order
\* the timeout timer, 'close' and 'error' come: the timeout first gives a failure, whose
\* error is 'Timeout' unless the kill() of the timeout callback is refused, and then it is
\* the message of the error kill() emits, 'kill EPERM' (a later 'close' leaves either);
\* 'close' with code 0 first gives a success, 'close' with another code or 'error' first
\* a failure; so doPing emits one 'result' per call and never 'error'. Until the result
\* is there the timeout timer is pending.
C33_PingResolvesOnce ==
    call # NoCall =>
        /\ call.promise.state \in {"pending", "fulfilled"}
        /\ (call.promise.state = "pending") <=> (call.first = "none")
        /\ (call.promise.state = "pending") <=> (call.emitted = <<>>)
        /\ call.promise.state = "pending" => call.timeoutId = "pending"
        /\ call.promise.state = "fulfilled" =>
              /\ Len(call.emitted) = 1
              /\ call.emitted[1] = [event |-> "result", value |-> call.promise.value]
              /\ call.promise.value.timestamp = call.timestamp
              /\ call.first = "timeout" =>
                    /\ ~call.promise.value.success
                    /\ call.promise.value.error =
                          IF call.kill = "EPERM" THEN "kill EPERM" ELSE "Timeout"
              /\ call.first = "close0" => call.promise.value.success
              /\ call.first \in {"closeN", "error"} =>
                    /\ ~call.promise.value.success
                    /\ call.promise.value.error \notin {"Timeout", "kill EPERM"}

\* the timeout fired first, its kill() was refused, and the 'close' of the subprocess
\* that ran on came after it
C33_Witness ==
    /\ call.first = "timeout"
    /\ call.kill = "EPERM"
    /\ call.closed
    /\ lastOp = "close"
    /\ call.promise.value.error = "kill EPERM"
    /\ Len(call.emitted) = 1

====
